---- MODULE Spec2Model ----
(***************************************************************************)
(* LightScan: the memory scanner (src/src/scanner, src/src/types) over the *)
(* process access layer (src/src/platform/windows.rs), and the engine      *)
(* facade (src/src/engine).                                                *)
(*                                                                         *)
(* The target's address space is scaled down: one "page" is one byte, the  *)
(* chunk size of read_region is CHUNK_SIZE bytes, and target bytes are     *)
(* drawn from ByteVals.  Value types are the integer kinds up to 4 bytes   *)
(* and byte arrays; 8-byte and floating point kinds are not modelled.      *)
(***************************************************************************)
EXTENDS Integers, Sequences, FiniteSets, TLC

VARIABLES
    mem,          \* target memory: address -> byte
    unreadable,   \* addresses at which ReadProcessMemory/WriteProcessMemory fail
    handleValid,  \* the OS handle held by Scanner.process is still open
    results,      \* Scanner.results.results  (Vec<ScanResult>)
    value_type,   \* Scanner.results.value_type
    scan_count,   \* Scanner.results.scan_count
    call,         \* the scanner call that returned last: arguments and return value
    ncalls,       \* number of scanner calls made so far
    nenv,         \* number of steps the target / the OS has taken so far
    engines,      \* engine variant -> its `initialized` flag
    ecall,        \* the facade call that returned last
    necalls,      \* number of facade calls made so far
    target,       \* what the Unreal target holds: main module, signature matches
    unreal,       \* UnrealEngine's anchor fields: module_base, gobjects_ptr, gnames_ptr, ...
    remote_allocs, \* VirtualAllocEx allocations in the target not yet freed
    threads,      \* remote threads: created, waited for, handles still open
    life,         \* the Process wrapper, its handle and the engine's copy of it
    fcall         \* the free function that returned last: name, arguments, result

scanVars == <<mem, unreadable, handleValid, results, value_type, scan_count, call, ncalls, nenv>>
engVars == <<engines, ecall, necalls, target, unreal, remote_allocs, fcall, threads, life>>
vars == <<mem, unreadable, handleValid, results, value_type, scan_count, call, ncalls, nenv,
          engines, ecall, necalls, target, unreal, remote_allocs, fcall, threads, life>>

----------------------------------------------------------------------------
(* Bounds of the model *)

\* scanner calls per behaviour
MaxCalls == 3
\* steps of the target process / the OS per behaviour
MaxEnv == 2
\* facade calls per behaviour
MaxEngineCalls == 2

----------------------------------------------------------------------------
(* Option<T> and Result<T, E> *)

None == << >>
Some(x) == <<x>>
IsSome(o) == Len(o) = 1
Unwrap(o) == o[1]

Ok(x) == [ok |-> TRUE, v |-> x]
Err == [ok |-> FALSE, v |-> << >>]

----------------------------------------------------------------------------
(* types/value.rs: ValueType *)

VT(t) == [tag |-> t, n |-> 0]
ByteArray(n) == [tag |-> "ByteArray", n |-> n]

\* ValueType::size
size(vt) ==
    CASE vt.tag \in {"I8", "U8"} -> 1
      [] vt.tag \in {"I16", "U16"} -> 2
      [] vt.tag \in {"I32", "U32"} -> 4
      [] vt.tag = "ByteArray" -> vt.n

\* ValueType::alignment
alignment(vt) ==
    CASE vt.tag \in {"I8", "U8", "ByteArray"} -> 1
      [] vt.tag \in {"I16", "U16"} -> 2
      [] vt.tag \in {"I32", "U32"} -> 4

(* types/value.rs: ScanValue.  val is the payload of an integer variant,  *)
(* arr the payload of ScanValue::ByteArray.                                *)
IntValue(t, v) == [tag |-> t, val |-> v, arr |-> << >>]
BytesValue(bs) == [tag |-> "ByteArray", val |-> 0, arr |-> bs]

IsSigned(t) == t \in {"I8", "I16", "I32"}

RECURSIVE Pow256(_)
Pow256(k) == IF k = 0 THEN 1 ELSE 256 * Pow256(k - 1)

\* uN::from_le_bytes over the first k bytes of bs
RECURSIVE LeUnsigned(_, _)
LeUnsigned(bs, k) ==
    IF k = 0 THEN 0 ELSE LeUnsigned(bs, k - 1) + bs[k] * Pow256(k - 1)

\* iN::from_le_bytes / uN::from_le_bytes: the top byte carries the sign
FromLe(bs, t, k) ==
    LET low == LeUnsigned(bs, k - 1)
        top == bs[k]
    IN  (IF IsSigned(t) /\ top >= 128 THEN top - 256 ELSE top) * Pow256(k - 1) + low

\* a to_le_bytes that writes the most significant byte first
ToLe_big_endian(v, k) ==
    LET low == v % Pow256(k - 1)
    IN  [i \in 1..k |-> IF i > 1 THEN (low \div Pow256(k - i)) % 256
                                ELSE ((v - low) \div Pow256(k - 1)) % 256]

\* iN::to_le_bytes / uN::to_le_bytes (two's complement, k bytes)
ToLe(v, k) ==
    LET low == v % Pow256(k - 1)
    IN  [i \in 1..k |-> IF i < k THEN (low \div Pow256(i - 1)) % 256
                                ELSE ((v - low) \div Pow256(k - 1)) % 256]

\* ScanValue::to_bytes
to_bytes(sv) ==
    IF sv.tag = "ByteArray" THEN sv.arr ELSE ToLe(sv.val, size(VT(sv.tag)))

\* ScanValue::value_type
value_type_of(sv) ==
    IF sv.tag = "ByteArray" THEN ByteArray(Len(sv.arr)) ELSE VT(sv.tag)

(* ScanValue::from_bytes.  The I8 and U8 arms index bytes[0] with no       *)
(* length guard, so an empty slice panics; every other arm is guarded.     *)
from_bytes(bytes, vt) ==
    CASE vt.tag \in {"I8", "U8"} ->
            IF Len(bytes) = 0
            THEN [kind |-> "Panic", value |-> IntValue(vt.tag, 0)]
            ELSE [kind |-> "Some", value |-> IntValue(vt.tag, FromLe(bytes, vt.tag, 1))]
      [] vt.tag \in {"I16", "U16", "I32", "U32"} ->
            IF Len(bytes) >= size(vt)
            THEN [kind |-> "Some", value |-> IntValue(vt.tag, FromLe(bytes, vt.tag, size(vt)))]
            ELSE [kind |-> "None", value |-> IntValue(vt.tag, 0)]
      [] vt.tag = "ByteArray" ->
            IF Len(bytes) >= vt.n
            THEN [kind |-> "Some", value |-> BytesValue(SubSeq(bytes, 1, vt.n))]
            ELSE [kind |-> "None", value |-> BytesValue(<< >>)]

\* ScanValue::as_f64
as_f64(sv) == IF sv.tag = "ByteArray" THEN 0 ELSE sv.val

\* #[derive(PartialEq)] on ScanValue
ValueEq(a, b) == a.tag = b.tag /\ a.val = b.val /\ a.arr = b.arr

(* types/value.rs: ScanType *)
ST(t) == [tag |-> t, min |-> 0, max |-> 0]
Between(lo, hi) == [tag |-> "Between", min |-> lo, max |-> hi]

\* ScanValue::compare
compare(self, other, scan_type) ==
    CASE scan_type.tag = "Exact" -> ValueEq(self, other)
      [] scan_type.tag = "GreaterThan" -> as_f64(self) > as_f64(other)
      [] scan_type.tag = "LessThan" -> as_f64(self) < as_f64(other)
      [] scan_type.tag = "Between" ->
            as_f64(self) >= scan_type.min /\ as_f64(self) <= scan_type.max
      [] OTHER -> FALSE

----------------------------------------------------------------------------
(* platform/windows.rs: the process access layer *)

\* width of usize, scaled: addresses are 0 .. AddressSpace - 1
AddressSpace == 8

\* the byte values the target keeps in its memory
ByteVals == {0, 1, 255}

\* addresses of the committed, accessible pages of MemoryMap
DataAddrs == 0..4

(* What VirtualQueryEx reports of the target, one MEMORY_BASIC_INFORMATION *)
(* per range: a read-write region no larger than a chunk, an executable    *)
(* read-only region larger than a chunk, a free range, and a committed     *)
(* PAGE_NOACCESS region that ends at the top of the address space.         *)
MemoryMap ==
    << [BaseAddress |-> 0, RegionSize |-> 2, State |-> "MEM_COMMIT", Protect |-> "PAGE_READWRITE"],
       [BaseAddress |-> 2, RegionSize |-> 3, State |-> "MEM_COMMIT", Protect |-> "PAGE_EXECUTE_READ"],
       [BaseAddress |-> 5, RegionSize |-> 1, State |-> "MEM_FREE", Protect |-> "PAGE_NOACCESS"],
       [BaseAddress |-> 6, RegionSize |-> 2, State |-> "MEM_COMMIT", Protect |-> "PAGE_NOACCESS"] >>

\* MemoryRegion::from_mbi
from_mbi(mbi) ==
    [base_address |-> mbi.BaseAddress,
     size |-> mbi.RegionSize,
     is_readable |-> mbi.Protect \in {"PAGE_READONLY", "PAGE_READWRITE", "PAGE_WRITECOPY",
                                      "PAGE_EXECUTE_READ", "PAGE_EXECUTE_READWRITE",
                                      "PAGE_EXECUTE_WRITECOPY"},
     is_writable |-> mbi.Protect \in {"PAGE_READWRITE", "PAGE_WRITECOPY",
                                      "PAGE_EXECUTE_READWRITE", "PAGE_EXECUTE_WRITECOPY"},
     is_executable |-> mbi.Protect \in {"PAGE_EXECUTE_READ", "PAGE_EXECUTE_READWRITE",
                                        "PAGE_EXECUTE_WRITECOPY"}]

(* VirtualQueryEx(handle, address): the entry covering address; it returns *)
(* 0 (here Err) on an invalid handle and past the last entry.              *)
VirtualQueryEx(address) ==
    LET hit == {i \in 1..Len(MemoryMap) :
                    /\ MemoryMap[i].BaseAddress <= address
                    /\ address < MemoryMap[i].BaseAddress + MemoryMap[i].RegionSize}
    IN  IF handleValid /\ hit # {} THEN Ok(MemoryMap[CHOOSE i \in hit : TRUE]) ELSE Err

\* the loop of query_memory_regions
RECURSIVE QueryLoop(_, _)
QueryLoop(address, regions) ==
    LET q == VirtualQueryEx(address)
        mbi == q.v
        pushed == IF mbi.State = "MEM_COMMIT" THEN Append(regions, from_mbi(mbi)) ELSE regions
        next == (mbi.BaseAddress + mbi.RegionSize) % AddressSpace
    IN  IF ~q.ok THEN regions
        ELSE IF next = 0 THEN pushed
        ELSE QueryLoop(next, pushed)

\* query_memory_regions: always Ok
query_memory_regions == Ok(QueryLoop(0, << >>))

\* protection of the page at address a
PageProtect(a) ==
    LET hit == {i \in 1..Len(MemoryMap) :
                    /\ MemoryMap[i].BaseAddress <= a
                    /\ a < MemoryMap[i].BaseAddress + MemoryMap[i].RegionSize}
    IN  IF hit = {} THEN "PAGE_NOACCESS" ELSE MemoryMap[CHOOSE i \in hit : TRUE].Protect

(* read_process_memory: Err when ReadProcessMemory fails or transfers      *)
(* fewer than size bytes, else the bytes.                                  *)
read_process_memory(address, sz) ==
    IF handleValid /\ \A a \in address..(address + sz - 1) : a \in DataAddrs \ unreadable
    THEN Ok([i \in 1..sz |-> mem[address + i - 1]])
    ELSE Err

\* write_process_memory succeeds: every byte lands on a writable page
WriteSucceeds(address, data) ==
    /\ handleValid
    /\ \A a \in address..(address + Len(data) - 1) :
            /\ a \in DataAddrs \ unreadable
            /\ PageProtect(a) \in {"PAGE_READWRITE", "PAGE_EXECUTE_READWRITE"}

\* the target's memory after write_process_memory(address, data)
WrittenMem(address, data) ==
    [a \in DOMAIN mem |->
        IF a >= address /\ a < address + Len(data) THEN data[a - address + 1] ELSE mem[a]]

----------------------------------------------------------------------------
(* scanner/memory.rs: MemoryScanner *)

\* CHUNK_SIZE (1 MiB in the source), scaled to the pages of MemoryMap
CHUNK_SIZE == 2

Min(a, b) == IF a < b THEN a ELSE b

Zeros(k) == [i \in 1..k |-> 0]

\* MemoryScanner::filter_regions
RECURSIVE filter_regions(_, _, _, _)
filter_regions(regions, readable_only, writable_only, executable_only) ==
    IF regions = << >> THEN << >>
    ELSE LET region == Head(regions)
             rest == filter_regions(Tail(regions), readable_only, writable_only, executable_only)
         IN  IF /\ (~readable_only \/ region.is_readable)
                /\ (~writable_only \/ region.is_writable)
                /\ (~executable_only \/ region.is_executable)
             THEN <<region>> \o rest
             ELSE rest

\* MemoryScanner::read_memory
read_memory(address, sz) == read_process_memory(address, sz)

\* the chunk loop of read_region: a failed chunk is padded with zeros
RECURSIVE ReadChunks(_, _, _)
ReadChunks(region, offset, buffer) ==
    IF offset >= region.size THEN buffer
    ELSE LET chunk_size == Min(region.size - offset, CHUNK_SIZE)
             r == read_memory(region.base_address + offset, chunk_size)
         IN  IF r.ok
             THEN ReadChunks(region, offset + chunk_size, buffer \o r.v)
             ELSE ReadChunks(region, offset + chunk_size, buffer \o Zeros(chunk_size))

\* MemoryScanner::read_region
read_region(region) ==
    IF region.size <= CHUNK_SIZE
    THEN read_memory(region.base_address, region.size)
    ELSE Ok(ReadChunks(region, 0, << >>))

----------------------------------------------------------------------------
(* types/scan_result.rs *)

\* ScanResult::new as it would be without the current value
NewScanResult_absent(address, value) ==
    [address |-> address, previous_value |-> value, current_value |-> None]

\* ScanResult::new
NewScanResult(address, value) ==
    [address |-> address, previous_value |-> value, current_value |-> Some(value)]

\* ScanResult::get_current_value
get_current_value(r) ==
    IF IsSome(r.current_value) THEN Unwrap(r.current_value) ELSE r.previous_value

\* update_value as it would be without the shift of current into previous
update_value_keeps_previous(r, new_value) ==
    [r EXCEPT !.current_value = Some(new_value)]

\* ScanResult::update_value
update_value(r, new_value) ==
    [r EXCEPT !.previous_value = get_current_value(r),
              !.current_value = Some(new_value)]

\* ScanOptions::new
NewScanOptions(vt) ==
    [value_type |-> vt, alignment |-> alignment(vt),
     writable_only |-> FALSE, readable_only |-> TRUE, executable_only |-> FALSE]

\* ScanOptions::with_alignment
with_alignment(o, a) == [o EXCEPT !.alignment = a]

\* ScanOptions::writable_only
writable_only(o) == [o EXCEPT !.writable_only = TRUE]

----------------------------------------------------------------------------
(* scanner/scan.rs *)

(* The while loop of scan_region_first over the bytes read from a region.  *)
(* It yields the results pushed so far and whether the loop panicked:      *)
(* `(region.base_address + offset) % alignment` with alignment 0.          *)
\* a loop that steps by the size of the value where the code steps by the alignment
RECURSIVE ScanLoop_strides_by_size(_, _, _, _, _, _, _)
ScanLoop_strides_by_size(data, region, value, scan_type, options, offset, acc) ==
    LET value_size == size(options.value_type)
        chunk == SubSeq(data, offset + 1, offset + value_size)
        found == from_bytes(chunk, options.value_type)
        hit == /\ (region.base_address + offset) % options.alignment = 0
               /\ found.kind = "Some"
               /\ (scan_type.tag = "Unknown" \/ compare(found.value, value, scan_type))
    IN  IF offset + value_size > Len(data) THEN [panic |-> FALSE, results |-> acc]
        ELSE IF options.alignment = 0 THEN [panic |-> TRUE, results |-> acc]
        ELSE ScanLoop_strides_by_size(data, region, value, scan_type, options,
                      offset + Min(options.alignment, value_size + 1),
                      IF hit THEN Append(acc, NewScanResult(region.base_address + offset, chunk))
                      ELSE acc)

RECURSIVE ScanLoop(_, _, _, _, _, _, _)
ScanLoop(data, region, value, scan_type, options, offset, acc) ==
    LET value_size == size(options.value_type)
        chunk == SubSeq(data, offset + 1, offset + value_size)
        found == from_bytes(chunk, options.value_type)
        matches == IF scan_type.tag = "Unknown" THEN TRUE
                   ELSE compare(found.value, value, scan_type)
        hit == /\ (region.base_address + offset) % options.alignment = 0
               /\ found.kind = "Some"
               /\ matches
    IN  IF offset + value_size > Len(data) THEN [panic |-> FALSE, results |-> acc]
        ELSE IF options.alignment = 0 THEN [panic |-> TRUE, results |-> acc]
        ELSE ScanLoop(data, region, value, scan_type, options, offset + options.alignment,
                      IF hit THEN Append(acc, NewScanResult(region.base_address + offset, chunk))
                      ELSE acc)

\* scan_region_first
scan_region_first(region, value, scan_type, options) ==
    LET data == read_region(region)
    IN  IF ~data.ok THEN [panic |-> FALSE, results |-> << >>]
        ELSE ScanLoop(data.v, region, value, scan_type, options, 0, << >>)

\* the loop of first_scan over the filtered regions
RECURSIVE ScanRegions(_, _, _, _)
ScanRegions(regions, value, scan_type, options) ==
    IF regions = << >> THEN [panic |-> FALSE, results |-> << >>]
    ELSE LET here == scan_region_first(Head(regions), value, scan_type, options)
             rest == ScanRegions(Tail(regions), value, scan_type, options)
         IN  IF here.panic THEN here
             ELSE [panic |-> rest.panic, results |-> here.results \o rest.results]

\* the regions first_scan scans: query_regions()? then filter_regions
ScannedRegions(options) ==
    filter_regions(query_memory_regions.v, options.readable_only,
                   options.writable_only, options.executable_only)

(* rescan_address as it would be if the history predicates read the        *)
(* result's previous_value field instead of get_current_value()            *)
rescan_address_against_previous(previous, value, scan_type, vt) ==
    LET r == read_memory(previous.address, size(vt))
        current_value == from_bytes(r.v, vt)
        previous_value == from_bytes(previous.previous_value, vt)
        matches ==
            CASE scan_type.tag = "Increased" ->
                    as_f64(current_value.value) > as_f64(previous_value.value)
              [] scan_type.tag = "Decreased" ->
                    as_f64(current_value.value) < as_f64(previous_value.value)
              [] scan_type.tag = "Changed" ->
                    ~ValueEq(current_value.value, previous_value.value)
              [] scan_type.tag = "Unchanged" ->
                    ValueEq(current_value.value, previous_value.value)
              [] scan_type.tag = "Unknown" -> TRUE
              [] OTHER -> compare(current_value.value, value, scan_type)
    IN  IF r.ok /\ matches THEN Some(update_value(previous, r.v)) ELSE None

(* rescan_address: None (the candidate is dropped) or Some(updated result) *)
rescan_address(previous, value, scan_type, vt) ==
    LET r == read_memory(previous.address, size(vt))
        current_value == from_bytes(r.v, vt)
        previous_value == from_bytes(get_current_value(previous), vt)
        matches ==
            CASE scan_type.tag \in {"Exact", "GreaterThan", "LessThan", "Between"} ->
                    compare(current_value.value, value, scan_type)
              [] scan_type.tag = "Increased" ->
                    as_f64(current_value.value) > as_f64(previous_value.value)
              [] scan_type.tag = "Decreased" ->
                    as_f64(current_value.value) < as_f64(previous_value.value)
              [] scan_type.tag = "Changed" ->
                    ~ValueEq(current_value.value, previous_value.value)
              [] scan_type.tag = "Unchanged" ->
                    ValueEq(current_value.value, previous_value.value)
              [] scan_type.tag = "Unknown" -> TRUE
    IN  IF ~r.ok THEN None
        ELSE IF current_value.kind # "Some" \/ previous_value.kind # "Some" THEN None
        ELSE IF matches THEN Some(update_value(previous, r.v))
        ELSE None

\* the filter_map of next_scan as it would be if a failed read ended the pass
RECURSIVE Rescan_stops_at_failure(_, _, _, _)
Rescan_stops_at_failure(rs, value, scan_type, vt) ==
    IF rs = << >> THEN << >>
    ELSE IF ~read_memory(Head(rs).address, size(vt)).ok THEN << >>
    ELSE rescan_address(Head(rs), value, scan_type, vt)
            \o Rescan_stops_at_failure(Tail(rs), value, scan_type, vt)

\* the filter_map of next_scan
RECURSIVE Rescan(_, _, _, _)
Rescan(rs, value, scan_type, vt) ==
    IF rs = << >> THEN << >>
    ELSE rescan_address(Head(rs), value, scan_type, vt)
            \o Rescan(Tail(rs), value, scan_type, vt)

----------------------------------------------------------------------------
(* Inputs of the scanner calls *)

\* largest alignment a caller passes (0 is what with_alignment(0) sets)
MaxAlign == 2

ValueTypes == {VT("U8"), VT("I16"), ByteArray(0)}

Values == {IntValue("U8", 1), IntValue("I16", -1), BytesValue(<< >>)}

\* the dummy value callers pass with a predicate that takes no value (gui/app.rs)
DummyValue == IntValue("I32", 0)

HistoryTypes == {ST("Increased"), ST("Decreased"), ST("Changed"), ST("Unchanged")}

\* (value, scan_type) pairs: a reference value only where the predicate reads one
Queries ==
    ({ST("Exact"), ST("GreaterThan"), ST("LessThan")} \X Values)
      \cup ((HistoryTypes \cup {ST("Unknown"), Between(0, 1)}) \X {DummyValue})

\* every ScanOptions value over ValueTypes and alignments 0..MaxAlign
AllOptions ==
    [value_type : ValueTypes, alignment : 0..MaxAlign,
     writable_only : BOOLEAN, readable_only : BOOLEAN, executable_only : BOOLEAN]

\* the options the builder gives: ScanOptions::new(vt), optionally .writable_only()
BuilderOptions ==
    {NewScanOptions(vt) : vt \in {VT("U8"), VT("I16")}}
      \cup {writable_only(NewScanOptions(VT("U8")))}

\* what a scan of the scanner's life asks for
FirstQueries == {<<ST("Unknown"), DummyValue>>, <<ST("Exact"), IntValue("U8", 1)>>}

NextQueries == (HistoryTypes \X {DummyValue}) \cup {<<ST("Exact"), IntValue("U8", 1)>>}

(* The record of a returned call: its arguments, its return (ret, n, out)  *)
(* and in vt the value type it worked with: the scanner's value type when  *)
(* the call was made, or the type passed to read_value / write_value.      *)
Call(op, value, scan_type, options, address, vt, ret, n, out) ==
    [op |-> op, value |-> value, scan_type |-> scan_type, options |-> options,
     address |-> address, vt |-> vt, ret |-> ret, n |-> n, out |-> out]

NoCall ==
    Call("new", DummyValue, ST("Unknown"), NewScanOptions(VT("I32")), 0, VT("I32"),
         "Ok", 0, DummyValue)

----------------------------------------------------------------------------
(* scanner/scan.rs: the Scanner's operations *)

\* Scanner::first_scan
first_scan(value, scan_type, options) ==
    LET scanned == ScanRegions(ScannedRegions(options), value, scan_type, options)
    IN  /\ ncalls < MaxCalls
        /\ ncalls' = ncalls + 1
        /\ value_type' = options.value_type
        /\ IF scanned.panic
           THEN /\ results' = << >>
                /\ scan_count' = 0
                /\ call' = Call("first_scan", value, scan_type, options, 0,
                                value_type, "Panic", 0, DummyValue)
           ELSE /\ results' = scanned.results
                /\ scan_count' = 1
                /\ call' = Call("first_scan", value, scan_type, options, 0,
                                value_type, "Ok", Len(scanned.results), DummyValue)
        /\ UNCHANGED <<mem, unreadable, handleValid, nenv, engVars>>

\* Scanner::next_scan
next_scan(value, scan_type) ==
    LET filtered == Rescan(results, value, scan_type, value_type)
    IN  /\ ncalls < MaxCalls
        /\ ncalls' = ncalls + 1
        /\ IF results = << >>
           THEN /\ UNCHANGED <<results, scan_count>>
                /\ call' = Call("next_scan", value, scan_type, NoCall.options, 0,
                                value_type, "Ok", 0, DummyValue)
           ELSE /\ results' = filtered
                /\ scan_count' = scan_count + 1
                /\ call' = Call("next_scan", value, scan_type, NoCall.options, 0,
                                value_type, "Ok", Len(filtered), DummyValue)
        /\ UNCHANGED <<mem, unreadable, handleValid, value_type, nenv, engVars>>

\* Scanner::reset as it would be if clear() left the scan count
reset_keeps_count ==
    /\ ncalls < MaxCalls
    /\ ncalls' = ncalls + 1
    /\ results' = << >>
    /\ call' = Call("reset", DummyValue, ST("Unknown"), NoCall.options, 0, value_type,
                    "Ok", 0, DummyValue)
    /\ UNCHANGED <<mem, unreadable, handleValid, value_type, scan_count, nenv, engVars>>

\* Scanner::reset (ScanResults::clear)
reset ==
    /\ ncalls < MaxCalls
    /\ ncalls' = ncalls + 1
    /\ results' = << >>
    /\ scan_count' = 0
    /\ call' = Call("reset", DummyValue, ST("Unknown"), NoCall.options, 0, value_type,
                    "Ok", 0, DummyValue)
    /\ UNCHANGED <<mem, unreadable, handleValid, value_type, nenv, engVars>>

\* Scanner::read_value
read_value(address, vt) ==
    LET bytes == read_memory(address, size(vt))
        parsed == from_bytes(bytes.v, vt)
    IN  /\ ncalls < MaxCalls
        /\ ncalls' = ncalls + 1
        /\ call' = IF bytes.ok /\ parsed.kind = "Some"
                   THEN Call("read_value", DummyValue, ST("Unknown"), NoCall.options,
                             address, vt, "Ok", 0, parsed.value)
                   ELSE Call("read_value", DummyValue, ST("Unknown"), NoCall.options,
                             address, vt, "Err", 0, DummyValue)
        /\ UNCHANGED <<mem, unreadable, handleValid, results, value_type, scan_count,
                       nenv, engVars>>

\* Scanner::write_value
write_value(address, value) ==
    LET data == to_bytes(value)
    IN  /\ ncalls < MaxCalls
        /\ ncalls' = ncalls + 1
        /\ IF WriteSucceeds(address, data)
           THEN /\ mem' = WrittenMem(address, data)
                /\ call' = Call("write_value", value, ST("Unknown"), NoCall.options,
                                address, value_type_of(value), "Ok", 0, DummyValue)
           ELSE /\ UNCHANGED mem
                /\ call' = Call("write_value", value, ST("Unknown"), NoCall.options,
                                address, value_type_of(value), "Err", 0, DummyValue)
        /\ UNCHANGED <<unreadable, handleValid, results, value_type, scan_count,
                       nenv, engVars>>

----------------------------------------------------------------------------
(* The target process and the OS *)

\* the target stores byte b at address a
TargetWrite(a, b) ==
    /\ nenv < MaxEnv
    /\ mem[a] # b
    /\ nenv' = nenv + 1
    /\ mem' = [mem EXCEPT ![a] = b]
    /\ UNCHANGED <<unreadable, handleValid, results, value_type, scan_count, call,
                   ncalls, engVars>>

\* the page at address a stops being accessible (decommitted, re-protected)
PageLost(a) ==
    /\ nenv < MaxEnv
    /\ a \notin unreadable
    /\ nenv' = nenv + 1
    /\ unreadable' = unreadable \cup {a}
    /\ UNCHANGED <<mem, handleValid, results, value_type, scan_count, call,
                   ncalls, engVars>>

\* the handle value is closed (platform::close_process on a copy of it)
HandleClosed ==
    /\ nenv < MaxEnv
    /\ handleValid
    /\ nenv' = nenv + 1
    /\ handleValid' = FALSE
    /\ UNCHANGED <<mem, unreadable, results, value_type, scan_count, call,
                   ncalls, engVars>>

----------------------------------------------------------------------------
(* scanner/process.rs: Process, its handle and the copies of it *)

(* process: where the Process wrapper is ("none" before Process::open,     *)
(* "local" in the caller, "scanner" once moved into Scanner::new,          *)
(* "dropped"); engine: whether an engine built on handle_as_usize() is     *)
(* alive; closes: calls of close_process; issued: operations issued on the *)
(* handle value; stale: those issued after it was closed; last: the last   *)
(* operation issued.                                                       *)
Life(process, engine, closes, issued, stale, last) ==
    [process |-> process, engine |-> engine, closes |-> closes,
     issued |-> issued, stale |-> stale, last |-> last]

NoProcess == Life("none", FALSE, 0, 0, 0, "none")

\* Scanner::new(Process::open(pid, name)?) has run
ScannerOwnsProcess == Life("scanner", FALSE, 0, 0, 0, "none")

\* the operations issued on the handle per behaviour
MaxHandleOps == 3

\* Process::open
process_open ==
    /\ life.process = "none"
    /\ life' = [life EXCEPT !.process = "local"]
    /\ handleValid' = TRUE
    /\ UNCHANGED <<mem, unreadable, results, value_type, scan_count, call, ncalls, nenv,
                   engines, ecall, necalls, target, unreal, remote_allocs, fcall, threads>>

\* Scanner::new(process): the wrapper moves into the scanner
scanner_new ==
    /\ life.process = "local"
    /\ life' = [life EXCEPT !.process = "scanner"]
    /\ UNCHANGED <<scanVars, engines, ecall, necalls, target, unreal, remote_allocs,
                   fcall, threads>>

\* UnrealEngine::new(process.handle_as_usize(), pid): the engine keeps the value
engine_new ==
    /\ life.process \in {"local", "scanner"}
    /\ ~life.engine
    /\ life' = [life EXCEPT !.engine = TRUE]
    /\ UNCHANGED <<scanVars, engines, ecall, necalls, target, unreal, remote_allocs,
                   fcall, threads>>

\* Drop for Process (of the wrapper, or of the scanner that owns it): close_process
process_drop ==
    /\ life.process \in {"local", "scanner"}
    /\ life' = [life EXCEPT !.process = "dropped", !.closes = @ + 1]
    /\ handleValid' = FALSE
    /\ UNCHANGED <<mem, unreadable, results, value_type, scan_count, call, ncalls, nenv,
                   engines, ecall, necalls, target, unreal, remote_allocs, fcall, threads>>

\* the engine is dropped: it has no Drop, its handle value is forgotten
engine_drop ==
    /\ life.engine
    /\ life' = [life EXCEPT !.engine = FALSE]
    /\ UNCHANGED <<scanVars, engines, ecall, necalls, target, unreal, remote_allocs,
                   fcall, threads>>

\* one operation issued on the handle value
Issue(by, op) ==
    /\ life.issued < MaxHandleOps
    /\ life' = [life EXCEPT !.issued = @ + 1,
                            !.stale = IF handleValid THEN @ ELSE @ + 1,
                            !.last = <<by, op>>]
    /\ UNCHANGED <<scanVars, engines, ecall, necalls, target, unreal, remote_allocs,
                   fcall, threads>>

\* a scanner operation: MemoryScanner on self.process.handle()
scanner_issue(op) == life.process = "scanner" /\ Issue("scanner", op)

\* an engine operation: the platform call on self.process_handle
engine_issue(op) == life.engine /\ Issue("engine", op)

----------------------------------------------------------------------------
(* engine/: the GameEngine facade and its four variants *)

EngineKinds == {"Unreal", "UnityMono", "UnityIL2CPP", "Native"}

\* the class, method, field, instance, invoke and field access operations
FacadeOps ==
    {"find_class", "get_class_info", "enumerate_classes",
     "find_method", "get_method_info", "enumerate_methods",
     "find_field", "get_field_info", "enumerate_fields",
     "get_instances", "get_instance_class",
     "invoke", "read_field", "write_field"}

\* impl GameEngine for UnityMonoEngine / UnityIL2CppEngine: every body is a constant
UnityOutcome(op) ==
    CASE op = "find_class" -> "ClassNotFound"
      [] op = "find_method" -> "MethodNotFound"
      [] op = "find_field" -> "FieldNotFound"
      [] op \in {"enumerate_classes", "enumerate_methods", "enumerate_fields",
                 "get_instances"} -> "Ok"
      [] OTHER -> "UnsupportedOperation"

\* impl GameEngine for NativeEngine; `symbols` stays empty (parse_export_table fills nothing)
NativeOutcome(op) ==
    CASE op = "find_class" -> "ClassNotFound"
      [] op = "find_method" -> "MethodNotFound"
      [] op = "find_field" -> "FieldNotFound"
      [] op \in {"enumerate_classes", "get_method_info", "enumerate_methods",
                 "enumerate_fields", "get_instances"} -> "Ok"
      [] OTHER -> "UnsupportedOperation"

(* What the *_impl routines of the Unreal backend can return: each reads   *)
(* the target through read_process_memory, so a failed read surfaces as    *)
(* PlatformError (From<anyhow::Error>) where it is propagated with `?`.    *)
UnrealImplOutcomes(op) ==
    CASE op = "find_class" -> {"Ok", "ClassNotFound", "PlatformError"}
      [] op = "get_class_info" -> {"Ok", "PlatformError", "InitializationFailed"}
      [] op = "find_method" -> {"Ok", "MethodNotFound", "PlatformError"}
      [] op = "find_field" -> {"Ok", "FieldNotFound", "PlatformError"}
      [] op = "invoke" -> {"Ok", "InvocationFailed", "PlatformError"}
      [] op = "write_field" -> {"Ok", "TypeMismatch", "PlatformError"}
      [] OTHER -> {"Ok", "PlatformError"}

\* impl GameEngine for UnrealEngine: the guards in front of the *_impl routines
UnrealOutcomes(op, initialized, has_instance) ==
    CASE op = "find_class" ->
            IF ~initialized THEN {"NotInitialized"} ELSE UnrealImplOutcomes(op)
      [] op = "invoke" ->
            IF ~initialized THEN {"NotInitialized"}
            ELSE IF ~has_instance THEN {"InvocationFailed"}
            ELSE UnrealImplOutcomes(op)
      [] op = "get_instances" -> {"Ok"}
      [] op = "get_instance_class" -> {"UnsupportedOperation"}
      [] OTHER -> UnrealImplOutcomes(op)

\* the returns a facade operation can give on a variant
FacadeOutcomes(kind, op, initialized, has_instance) ==
    CASE kind = "Unreal" -> UnrealOutcomes(op, initialized, has_instance)
      [] kind = "Native" -> {NativeOutcome(op)}
      [] OTHER -> {UnityOutcome(op)}

ECall(kind, op, initialized, has_instance, ret) ==
    [engine |-> kind, op |-> op, initialized |-> initialized,
     has_instance |-> has_instance, ret |-> ret, searched |-> << >>]

(* VersionSignatures::all(): the number of patterns tried for each anchor *)
GObjectsPatterns == 3
GNamesPatterns == 8
ProcessEventPatterns == 2

(* What one pattern of an anchor gives on the target: the scan fails       *)
(* ("ScanErr"), nothing matches ("NoMatch"), no match resolves to a usable *)
(* pointer ("Invalid"), or one does ("Valid").                             *)
PatternOutcomes == {"ScanErr", "NoMatch", "Invalid", "Valid"}

(* The pattern loop of find_gobjects_impl / find_gnames_impl /             *)
(* find_process_event_impl: the index of the first pattern that gives a    *)
(* usable match, 0 when the loop falls through to InitializationFailed.    *)
RECURSIVE FindAnchor(_, _)
FindAnchor(outcomes, i) ==
    IF i > Len(outcomes) THEN 0
    ELSE IF outcomes[i] = "Valid" THEN i
    ELSE FindAnchor(outcomes, i + 1)

find_gobjects_impl(t) == FindAnchor(t.gobjects, 1)
find_gnames_impl(t) == FindAnchor(t.gnames, 1)
find_process_event_impl(t) == FindAnchor(t.process_event, 1)

(* refresh_gnames: the pointer is read again; a null pointer falls back to *)
(* a 32 byte read of the location itself.                                  *)
refresh_gnames(t) ==
    CASE t.gnames_value = "Gone" -> "PlatformError"
      [] t.gnames_value = "NullShort" -> "InitializationFailed"
      [] OTHER -> "Ok"

NewUnreal == [module |-> FALSE, gobjects_ptr |-> 0, gnames_ptr |-> 0, process_event |-> 0]

(* initialize as it would be if a GNames search that fails were passed     *)
(* over instead of returned                                                *)
UnrealInitialize_passes_gnames(t, u, initialized) ==
    LET Out(ret, fields, searched) ==
            [ret |-> ret, unreal |-> fields, initialized |-> ret = "Ok",
             searched |-> searched]
        u2 == [u EXCEPT !.module = TRUE, !.gobjects_ptr = find_gobjects_impl(t)]
        u4 == [u2 EXCEPT !.gnames_ptr = find_gnames_impl(t),
                         !.process_event = find_process_event_impl(t)]
    IN  IF initialized THEN Out("Ok", u, << >>)
        ELSE IF ~t.module THEN Out("InitializationFailed", u, << >>)
        ELSE IF find_gobjects_impl(t) = 0
             THEN Out("InitializationFailed", u2, <<"GObjects">>)
        ELSE IF find_process_event_impl(t) = 0
             THEN Out("InitializationFailed", u4, <<"GObjects", "GNames", "ProcessEvent">>)
        ELSE Out("Ok", u4, <<"GObjects", "GNames", "ProcessEvent">>)

(* UnrealEngine::initialize: the return value, the fields it leaves, the   *)
(* flag, and the anchors it searched for, in order.                        *)
UnrealInitialize(t, u, initialized) ==
    LET Out(ret, fields, searched) ==
            [ret |-> ret, unreal |-> fields, initialized |-> ret = "Ok",
             searched |-> searched]
        u1 == [u EXCEPT !.module = TRUE]
        u2 == [u1 EXCEPT !.gobjects_ptr = find_gobjects_impl(t)]
        u3 == [u2 EXCEPT !.gnames_ptr = find_gnames_impl(t)]
        u4 == [u3 EXCEPT !.process_event = find_process_event_impl(t)]
    IN  IF initialized THEN Out("Ok", u, << >>)
        ELSE IF ~t.module THEN Out("InitializationFailed", u, << >>)
        ELSE IF find_gobjects_impl(t) = 0
             THEN Out("InitializationFailed", u1, <<"GObjects">>)
        ELSE IF find_gnames_impl(t) = 0
             THEN Out("InitializationFailed", u2, <<"GObjects", "GNames">>)
        ELSE IF refresh_gnames(t) # "Ok"
             THEN Out(refresh_gnames(t), u3, <<"GObjects", "GNames">>)
        ELSE IF find_process_event_impl(t) = 0
             THEN Out("InitializationFailed", u3, <<"GObjects", "GNames", "ProcessEvent">>)
        ELSE Out("Ok", u4, <<"GObjects", "GNames", "ProcessEvent">>)

\* GameEngine::initialize
initialize(kind) ==
    /\ necalls < MaxEngineCalls
    /\ necalls' = necalls + 1
    /\ IF kind = "Unreal"
       THEN LET out == UnrealInitialize(target, unreal, engines[kind])
            IN  /\ engines' = [engines EXCEPT ![kind] = out.initialized]
                /\ unreal' = out.unreal
                /\ ecall' = [ECall(kind, "initialize", engines[kind], FALSE, out.ret)
                                EXCEPT !.searched = out.searched]
       ELSE LET ret == IF kind = "Native" THEN "Ok" ELSE "InitializationFailed"
            IN  /\ engines' = [engines EXCEPT ![kind] = engines[kind] \/ ret = "Ok"]
                /\ ecall' = ECall(kind, "initialize", engines[kind], FALSE, ret)
                /\ UNCHANGED unreal
    /\ UNCHANGED <<target, remote_allocs, fcall, scanVars, threads, life>>

(* What the OS answers during one invoke: VirtualAllocEx for the           *)
(* parameters, VirtualAllocEx for the shellcode, write_process_memory of   *)
(* the shellcode, CreateRemoteThread.                                      *)
RemoteAnswers == [params : BOOLEAN, shellcode : BOOLEAN, write : BOOLEAN, thread : BOOLEAN]

\* no remote thread, and one: handles CreateRemoteThread returned, waits, CloseHandle calls
NoThreads == [created |-> 0, waited |-> 0, closed |-> 0]

\* the thread of an invoke that reached CreateRemoteThread and got a handle
ThreadOfInvoke == [created |-> 1, waited |-> 1, closed |-> 0]

(* invoke_method_impl: its return, the allocations it made and did not     *)
(* free (VirtualFreeEx is taken to succeed), and what it did with the      *)
(* remote thread                                                           *)
invoke_method_impl(os) ==
    IF ~os.params THEN [ret |-> "InvocationFailed", outstanding |-> 0, thread |-> NoThreads]
    ELSE IF ~os.shellcode
         THEN [ret |-> "InvocationFailed", outstanding |-> 1 - 1, thread |-> NoThreads]
    ELSE IF ~os.write THEN [ret |-> "PlatformError", outstanding |-> 2, thread |-> NoThreads]
    ELSE IF ~os.thread
         THEN [ret |-> "InvocationFailed", outstanding |-> 2 - 2, thread |-> NoThreads]
    ELSE [ret |-> "Ok", outstanding |-> 2 - 2, thread |-> ThreadOfInvoke]

\* the threads after one more invoke
AddThreads(t, u) ==
    [created |-> t.created + u.created, waited |-> t.waited + u.waited,
     closed |-> t.closed + u.closed]

\* any other operation of the facade, called through dyn GameEngine
facade_call(kind, op, has_instance) ==
    /\ necalls < MaxEngineCalls
    /\ necalls' = necalls + 1
    /\ IF kind = "Unreal" /\ op = "invoke" /\ engines[kind] /\ has_instance
       THEN \E os \in RemoteAnswers :
               /\ ecall' = ECall(kind, op, engines[kind], has_instance,
                                 invoke_method_impl(os).ret)
               /\ remote_allocs' = remote_allocs + invoke_method_impl(os).outstanding
               /\ threads' = AddThreads(threads, invoke_method_impl(os).thread)
       ELSE \E ret \in FacadeOutcomes(kind, op, engines[kind], has_instance) :
               /\ ecall' = ECall(kind, op, engines[kind], has_instance, ret)
               /\ UNCHANGED <<remote_allocs, threads>>
    /\ UNCHANGED <<engines, target, unreal, fcall, scanVars, life>>

----------------------------------------------------------------------------
(* engine/unreal/scanner.rs: the pattern scanner *)

\* the record of a returned free function
FCall(fn, args, out) == [fn |-> fn, args |-> args, out |-> out]

NoFCall == FCall("none", << >>, << >>)

\* Pattern: bytes and mask (TRUE: the byte must match, FALSE: wildcard)
Pattern(bytes, mask) == [bytes |-> bytes, mask |-> mask]

\* a matches that compares the first position only
matches_first_position(pattern, data) ==
    IF Len(data) < Len(pattern.bytes) THEN FALSE
    ELSE \A i \in 1..Min(1, Len(pattern.bytes)) :
            pattern.mask[i] => data[i] = pattern.bytes[i]

\* Pattern::matches
matches(pattern, data) ==
    IF Len(data) < Len(pattern.bytes) THEN FALSE
    ELSE \A i \in 1..Len(pattern.bytes) :
            pattern.mask[i] => data[i] = pattern.bytes[i]

\* usize::saturating_sub
saturating_sub(a, b) == IF a > b THEN a - b ELSE 0

\* for i in 0..data.len().saturating_sub(pattern.len()) of scan_pattern
RECURSIVE PatternLoop(_, _, _, _, _)
PatternLoop(data, region, pattern, i, acc) ==
    IF i >= saturating_sub(Len(data), Len(pattern.bytes)) THEN acc
    ELSE PatternLoop(data, region, pattern, i + 1,
                     IF matches(pattern, SubSeq(data, i + 1, Len(data)))
                     THEN Append(acc, [address |-> region.base_address + i, offset |-> i])
                     ELSE acc)

(* for region in regions of scan_pattern; every region of the query is     *)
(* committed, so the test of region.state never skips one                  *)
RECURSIVE PatternRegions(_, _, _, _)
PatternRegions(regions, pattern, module_base, module_size) ==
    IF regions = << >> THEN << >>
    ELSE LET region == Head(regions)
             rest == PatternRegions(Tail(regions), pattern, module_base, module_size)
             data == read_process_memory(region.base_address, region.size)
         IN  IF \/ region.base_address < module_base
                \/ region.base_address >= module_base + module_size
                \/ ~region.is_readable
             THEN rest
             ELSE IF data.ok THEN PatternLoop(data.v, region, pattern, 0, << >>) \o rest
             ELSE rest

\* scan_pattern
scan_pattern(pattern, module_base, module_size) ==
    Ok(PatternRegions(query_memory_regions.v, pattern, module_base, module_size))

\* a call of scan_pattern
scan_pattern_call(pattern, module_base, module_size) ==
    /\ fcall' = FCall("scan_pattern", <<pattern, module_base, module_size>>,
                      scan_pattern(pattern, module_base, module_size).v)
    /\ UNCHANGED <<scanVars, engines, ecall, necalls, target, unreal, remote_allocs, threads, life>>

\* the wildcard of a pattern string: byte 0, mask FALSE
Wild == <<0, FALSE>>

\* Pattern::from_string on a list of parts, each <<byte, TRUE>> or Wild
PatternOf(parts) ==
    Pattern([i \in 1..Len(parts) |-> parts[i][1]], [i \in 1..Len(parts) |-> parts[i][2]])

\* patterns of length 0 to 3 over the bytes of the target
Patterns ==
    {PatternOf(ps) : ps \in {<< >>, <<<<255, TRUE>>>>, <<Wild>>,
                              <<<<255, TRUE>>, <<255, TRUE>>>>, <<<<1, TRUE>>, Wild>>,
                              <<Wild, <<0, TRUE>>>>, <<<<0, TRUE>>, <<0, TRUE>>>>,
                              <<<<1, TRUE>>, <<0, TRUE>>, <<0, TRUE>>>>}}

\* (module_base, module_size) of the module scanned
Modules == {<<0, 8>>, <<0, 2>>, <<2, 3>>, <<1, 2>>}

----------------------------------------------------------------------------
(* scanner/simd.rs: the vectorized search for i32 values *)

\* the bytes of one AVX2 register
VectorBytes == 32

\* i32::from_le_bytes of data[offset..offset + 4]
I32At(data, offset) == FromLe(SubSeq(data, offset + 1, offset + 4), "I32", 4)

\* while offset + 4 <= data.len(): the scalar loop, from a starting offset
RECURSIVE ScalarLoop(_, _, _, _, _)
ScalarLoop(data, target_value, align, offset, acc) ==
    IF offset + 4 > Len(data) THEN acc
    ELSE ScalarLoop(data, target_value, align, offset + align,
                    IF offset % align = 0 /\ I32At(data, offset) = target_value
                    THEN Append(acc, offset) ELSE acc)

\* scalar_scan_i32
scalar_scan_i32(data, target_value, align) ==
    ScalarLoop(data, target_value, align, 0, << >>)

(* for i in 0..8: lane i of _mm256_cmpeq_epi32 is all ones exactly when    *)
(* the i32 loaded at chunk_offset + i * 4 equals the target, and then the  *)
(* four bits of the byte mask at i * 4 are set                             *)
RECURSIVE LaneLoop(_, _, _, _, _, _)
LaneLoop(data, target_value, align, chunk_offset, i, acc) ==
    IF i >= 8 THEN acc
    ELSE LET addr == chunk_offset + i * 4
         IN  LaneLoop(data, target_value, align, chunk_offset, i + 1,
                      IF I32At(data, addr) = target_value /\ addr % align = 0
                      THEN Append(acc, addr) ELSE acc)

\* for chunk_idx in 0..chunks
RECURSIVE ChunkLoop(_, _, _, _, _)
ChunkLoop(data, target_value, align, chunk_idx, acc) ==
    IF chunk_idx >= Len(data) \div VectorBytes THEN acc
    ELSE ChunkLoop(data, target_value, align, chunk_idx + 1,
                   LaneLoop(data, target_value, align, chunk_idx * VectorBytes, 0, acc))

\* simd_scan_i32_avx2
simd_scan_i32_avx2(data, target_value, align) ==
    IF Len(data) < VectorBytes THEN scalar_scan_i32(data, target_value, align)
    ELSE ScalarLoop(data, target_value, align, (Len(data) \div VectorBytes) * VectorBytes,
                    ChunkLoop(data, target_value, align, 0, << >>))

\* scan_i32; avx2 is what is_x86_feature_detected!("avx2") answers
scan_i32(data, target_value, align, avx2) ==
    IF avx2 THEN simd_scan_i32_avx2(data, target_value, align)
    ELSE scalar_scan_i32(data, target_value, align)

\* data[p..p + 4].copy_from_slice(bytes)
copy_from_slice(data, p, bytes) ==
    [i \in 1..Len(data) |-> IF i > p /\ i <= p + Len(bytes) THEN bytes[i - p] ELSE data[i]]

\* buffers of zeros holding the target's bytes at up to two places
SimdLens == {8, 31, 32, 36, 41}

SimdPlaces == {0, 1, 4, 6, 28, 32, 33, 36}

SimdTargets == {42, -1}

SimdAlignments == {1, 2, 3, 4, 8}

SimdBuffers(target_value) ==
    {Zeros(n) : n \in SimdLens} \cup
    {copy_from_slice(copy_from_slice(Zeros(n), p, ToLe(target_value, 4)), q, ToLe(target_value, 4)) :
        <<n, p, q>> \in {t \in SimdLens \X SimdPlaces \X SimdPlaces :
                            t[2] <= t[3] /\ t[3] + 4 <= t[1]}}

SimdInputs ==
    UNION {{<<data, t, a, avx2>> : data \in SimdBuffers(t), a \in SimdAlignments,
                                   avx2 \in BOOLEAN} : t \in SimdTargets}

\* a call of scan_i32 on the arguments drawn
scan_i32_call ==
    /\ fcall.fn = "input"
    /\ fcall' = FCall("scan_i32", fcall.args,
                      scan_i32(fcall.args[1], fcall.args[2], fcall.args[3], fcall.args[4]))
    /\ UNCHANGED <<scanVars, engines, ecall, necalls, target, unreal, remote_allocs, threads, life>>

----------------------------------------------------------------------------
(* engine/unreal/methods.rs: the enumeration of classes *)

\* objects of the target's object array, at addresses 1..MaxObjects (0 is null)
MaxObjects == 4

(* The objects of a target: each object's class pointer and super struct,  *)
(* the addresses that cannot be read, the objects whose name cannot be     *)
(* resolved, and whether the object array itself can be read.              *)
ClassGraphs ==
    [class : [1..MaxObjects -> 0..MaxObjects],
     super_struct : {[o \in 1..MaxObjects |-> 0],
                     [o \in 1..MaxObjects |-> IF o = 3 THEN 1 ELSE 0]},
     unreadable : {{}, {1}},
     unnamed : {{}, {2}},
     array_readable : BOOLEAN]

\* UObject::read(handle, addr), its class field
UObjectRead(g, addr) ==
    IF addr \in 1..MaxObjects /\ addr \notin g.unreadable THEN Ok(g.class[addr]) ELSE Err

\* get_all_objects_impl
get_all_objects_impl(g) ==
    IF g.array_readable THEN Ok([o \in 1..MaxObjects |-> o]) ELSE Err

\* get_class_info_impl: the name, then the UStruct
get_class_info_impl(g, class_addr) ==
    IF UObjectRead(g, class_addr).ok /\ class_addr \notin g.unnamed
    THEN Ok([handle |-> class_addr,
             parent |-> IF g.super_struct[class_addr] # 0
                        THEN Some(g.super_struct[class_addr]) ELSE None])
    ELSE Err

\* v.contains(x)
Contains(v, x) == \E i \in 1..Len(v) : v[i] = x

\* for _ in 0..3 of enumerate_classes_impl: is_class_type when the loop ends
RECURSIVE ClassWalk(_, _, _, _)
ClassWalk(g, current, visited, k) ==
    IF k >= 3 THEN FALSE
    ELSE LET current_obj == UObjectRead(g, current)
         IN  IF ~current_obj.ok THEN FALSE
             ELSE IF current_obj.v = current THEN TRUE
             ELSE IF Contains(visited, current_obj.v) THEN FALSE
             ELSE ClassWalk(g, current_obj.v, Append(visited, current_obj.v), k + 1)

\* for obj_addr in &all_objects of enumerate_classes_impl
RECURSIVE EnumerateLoop(_, _)
EnumerateLoop(g, all_objects) ==
    IF all_objects = << >> THEN << >>
    ELSE LET obj_addr == Head(all_objects)
             obj == UObjectRead(g, obj_addr)
             rest == EnumerateLoop(g, Tail(all_objects))
         IN  IF ~obj.ok \/ obj.v = 0 THEN rest
             ELSE IF ClassWalk(g, obj.v, <<obj.v>>, 0) /\ get_class_info_impl(g, obj_addr).ok
             THEN <<get_class_info_impl(g, obj_addr).v>> \o rest
             ELSE rest

\* enumerate_classes_impl
enumerate_classes_impl(g) ==
    IF get_all_objects_impl(g).ok THEN Ok(EnumerateLoop(g, get_all_objects_impl(g).v)) ELSE Err

\* a call of enumerate_classes on the objects drawn
enumerate_classes_call ==
    /\ fcall.fn = "input"
    /\ fcall' = FCall("enumerate_classes", fcall.args, enumerate_classes_impl(fcall.args[1]))
    /\ UNCHANGED <<scanVars, engines, ecall, necalls, target, unreal, remote_allocs, threads, life>>

----------------------------------------------------------------------------
(* scanner/scan.rs: scan_region_first on the bytes read from one region *)

\* the largest region
MaxRegion == 9

\* a readable, writable region of the given base and size
RegionAt(base, n) ==
    [base_address |-> base, size |-> n,
     is_readable |-> TRUE, is_writable |-> TRUE, is_executable |-> FALSE]

\* the bytes of a region: zeros, or bytes that differ from place to place
RegionBytes(n) == {Zeros(n), [i \in 1..n |-> (37 * i) % 128], [i \in 1..n |-> 255 - i]}

\* (bytes, base, value type) of an unknown-initial scan with alignment 4
RegionInputs ==
    UNION {RegionBytes(n) \X {0, 4} \X {VT("U8"), VT("I8"), VT("I16"), VT("I32"), ByteArray(3)} :
             n \in 0..MaxRegion}

\* scan_region_first with ScanType::Unknown and alignment 4, the region read whole
unknown_scan_call ==
    /\ fcall.fn = "input"
    /\ fcall' = FCall("scan_region_first", fcall.args,
                      ScanLoop(fcall.args[1], RegionAt(fcall.args[2], Len(fcall.args[1])),
                               DummyValue, ST("Unknown"),
                               with_alignment(NewScanOptions(fcall.args[3]), 4), 0, << >>))
    /\ UNCHANGED <<scanVars, engines, ecall, necalls, target, unreal, remote_allocs, threads, life>>

----------------------------------------------------------------------------
(* types/value.rs: from_bytes and to_bytes, alone and one after the other *)

\* the longest slice
MaxSlice == 4

\* slices of 0..MaxSlice bytes
RECURSIVE Slices(_)
Slices(n) ==
    IF n = 0 THEN {<< >>}
    ELSE Slices(n - 1) \cup {Append(bs, b) : bs \in Slices(n - 1), b \in {0, 1, 128, 255}}

\* the value types of at most 32 bits whose values are within i32's range
SliceTypes == {VT("I8"), VT("U8"), VT("I16"), VT("U16"), VT("I32"), ByteArray(0), ByteArray(2)}

\* scan values at the ends and in the middle of each type's range
SliceValues ==
    {IntValue("I8", v) : v \in {-128, -1, 0, 127}} \cup
    {IntValue("U8", v) : v \in {0, 128, 255}} \cup
    {IntValue("I16", v) : v \in {-32768, -256, -1, 0, 255, 32767}} \cup
    {IntValue("U16", v) : v \in {0, 256, 32768, 65535}} \cup
    {IntValue("I32", v) : v \in {-2147483647 - 1, -16777216, -1, 0, 65536, 2147483647}} \cup
    {BytesValue(<< >>), BytesValue(<<1, 255>>)}

ValueInputs ==
    {<<"bytes", bs, vt>> : bs \in Slices(MaxSlice), vt \in SliceTypes}
      \cup {<<"value", v, value_type_of(v)>> : v \in SliceValues}

\* ScanValue::from_bytes(bytes, value_type)
from_bytes_call ==
    /\ fcall.fn = "input" /\ fcall.args[1] = "bytes"
    /\ fcall' = FCall("from_bytes", fcall.args, from_bytes(fcall.args[2], fcall.args[3]))
    /\ UNCHANGED <<scanVars, engines, ecall, necalls, target, unreal, remote_allocs, threads, life>>

\* v.to_bytes() of the value from_bytes returned
to_bytes_of_from_bytes ==
    /\ fcall.fn = "from_bytes" /\ fcall.out.kind = "Some"
    /\ fcall' = FCall("to_bytes(from_bytes)", fcall.args, to_bytes(fcall.out.value))
    /\ UNCHANGED <<scanVars, engines, ecall, necalls, target, unreal, remote_allocs, threads, life>>

\* v.to_bytes()
to_bytes_call ==
    /\ fcall.fn = "input" /\ fcall.args[1] = "value"
    /\ fcall' = FCall("to_bytes", fcall.args, to_bytes(fcall.args[2]))
    /\ UNCHANGED <<scanVars, engines, ecall, necalls, target, unreal, remote_allocs, threads, life>>

\* ScanValue::from_bytes(&v.to_bytes(), v.value_type())
from_bytes_of_to_bytes ==
    /\ fcall.fn = "to_bytes"
    /\ fcall' = FCall("from_bytes(to_bytes)", fcall.args,
                      from_bytes(fcall.out, value_type_of(fcall.args[2])))
    /\ UNCHANGED <<scanVars, engines, ecall, necalls, target, unreal, remote_allocs, threads, life>>

----------------------------------------------------------------------------
(* engine/unreal: the name pool.  An image is the readable memory of a     *)
(* target from address 0: byte a is image[a + 1], and a read that leaves   *)
(* the image fails.                                                        *)

\* read_process_memory on an image: every byte asked for has to be readable
RemoteRead(image, addr, n) ==
    IF \A a \in addr..(addr + n - 1) : a + 1 \in DOMAIN image
    THEN Ok([i \in 1..n |-> image[addr + i]]) ELSE Err

\* usize::from_le_bytes; a pointer with a high byte set is outside every image
UsizeFromLe(bs) ==
    IF \A i \in 4..8 : bs[i] = 0 THEN LeUnsigned(bs, 3) ELSE Pow256(3)

\* FNameEntryAllocator::BLOCK_OFFSETS
BLOCK_OFFSETS == 65536

\* FNameEntryAllocator::STRIDE
STRIDE == 2

\* FNameEntryAllocator::decode_id
decode_id(id) == <<id \div BLOCK_OFFSETS, id % BLOCK_OFFSETS>>

\* an entry address that forgets the stride
get_entry_address_unscaled(blocks_addr, image, index) ==
    LET block_ptr_data == RemoteRead(image, blocks_addr + decode_id(index)[1] * 8, 8)
    IN  IF ~block_ptr_data.ok THEN Err
        ELSE IF UsizeFromLe(block_ptr_data.v) = 0 THEN Err
        ELSE Ok(UsizeFromLe(block_ptr_data.v) + decode_id(index)[2])

\* FNameEntryAllocator::get_entry_address
get_entry_address(blocks_addr, image, index) ==
    LET block_ptr_data == RemoteRead(image, blocks_addr + decode_id(index)[1] * 8, 8)
    IN  IF ~block_ptr_data.ok THEN Err
        ELSE IF UsizeFromLe(block_ptr_data.v) = 0 THEN Err
        ELSE Ok(UsizeFromLe(block_ptr_data.v) + decode_id(index)[2] * STRIDE)

\* FNamePool::read(handle, gnames): the pool whose block table is at gnames
FNamePoolRead(image, gnames) == Ok([blocks_addr |-> gnames])

\* the replacement character of the lossy decoders
REPLACEMENT == 65533

\* String::from_utf8_lossy on bytes that are ASCII or no part of a valid sequence
from_utf8_lossy(bs) == [i \in 1..Len(bs) |-> IF bs[i] < 128 THEN bs[i] ELSE REPLACEMENT]

\* chunks_exact(2), u16::from_le_bytes, String::from_utf16_lossy on lone units
from_utf16_lossy(bs) ==
    [i \in 1..(Len(bs) \div 2) |->
        LET u == bs[2 * i - 1] + 256 * bs[2 * i]
        IN  IF u >= 55296 /\ u <= 57343 THEN REPLACEMENT ELSE u]

\* UnrealEngine::get_fname_impl
get_fname_impl(image, gnames, index) ==
    LET name_pool == FNamePoolRead(image, gnames)
        entry_addr == get_entry_address(name_pool.v.blocks_addr, image, index)
        entry_header_data == RemoteRead(image, entry_addr.v, 2)
        header == LeUnsigned(entry_header_data.v, 2)
        is_wide == header % 2 # 0
        len == header \div 64
        string_data == RemoteRead(image, entry_addr.v + 2, IF is_wide THEN len * 2 ELSE len)
    IN  IF ~name_pool.ok \/ ~entry_addr.ok THEN Err
        ELSE IF ~entry_header_data.ok THEN Err
        ELSE IF len = 0 THEN Ok(<< >>)
        ELSE IF ~string_data.ok THEN Err
        ELSE IF is_wide THEN Ok(from_utf16_lossy(string_data.v))
        ELSE Ok(from_utf8_lossy(string_data.v))

(* The pool as the engine writes it: each entry a 2-byte header, length in *)
(* the bits from 6 up and the wide flag in bit 0, then the characters;     *)
(* entries follow one another at multiples of the stride.                  *)
PoolName(chars, wide) == [chars |-> chars, wide |-> wide]

EntryBytes(name) ==
    LET header == Len(name.chars) * 64 + (IF name.wide THEN 1 ELSE 0)
        body == IF name.wide
                THEN [i \in 1..(2 * Len(name.chars)) |->
                         IF i % 2 = 1 THEN name.chars[(i + 1) \div 2] % 256
                         ELSE name.chars[i \div 2] \div 256]
                ELSE name.chars
        raw == <<header % 256, header \div 256>> \o body
    IN  IF Len(raw) % STRIDE = 0 THEN raw ELSE Append(raw, 0)

RECURSIVE PoolBytes(_)
PoolBytes(names) ==
    IF names = << >> THEN << >> ELSE EntryBytes(Head(names)) \o PoolBytes(Tail(names))

\* the offset, in strides, of entry k of a block
EntryOffset(names, k) == Len(PoolBytes(SubSeq(names, 1, k - 1))) \div STRIDE

\* where the blocks of the images start
BlockBase == 32

\* the image of a pool: the block table at 0, one block at BlockBase, the other null
PoolImage(names, block, pad) ==
    [i \in 1..BlockBase |-> IF i = 8 * block + 1 THEN BlockBase ELSE 0]
      \o PoolBytes(names) \o Zeros(pad)

PoolNames ==
    {PoolName(<< >>, FALSE), PoolName(<<72>>, FALSE), PoolName(<<80, 108>>, FALSE),
     PoolName(<<65, 116, 107>>, FALSE), PoolName(<<12354, 233>>, TRUE)}

\* pools of one to three entries in block 0 or 1, with or without readable bytes behind
PoolInputs ==
    {<<names, block, pad>> :
        names \in UNION {[1..n -> PoolNames] : n \in 1..3}, block \in {0, 1}, pad \in {0, 8}}

\* the ids asked for: those of the entries, their neighbours, the other block
PoolIds(names, block) ==
    {block * BLOCK_OFFSETS + o : o \in 0..(Len(PoolBytes(names)) \div STRIDE + 1)}
      \cup {(1 - block) * BLOCK_OFFSETS, 2 * BLOCK_OFFSETS + 1}

\* a call of get_fname on the pool drawn
get_fname_call(id) ==
    /\ fcall.fn = "input"
    /\ fcall' = FCall("get_fname", Append(fcall.args, id),
                      get_fname_impl(PoolImage(fcall.args[1], fcall.args[2], fcall.args[3]), 0, id))
    /\ UNCHANGED <<scanVars, engines, ecall, necalls, target, unreal, remote_allocs, threads, life>>

----------------------------------------------------------------------------
(* engine/unreal/structures.rs: the object array *)

\* FChunkedFixedUObjectArray::NUM_ELEMENTS_PER_CHUNK
NUM_ELEMENTS_PER_CHUNK == 65536

\* FUObjectItem::SIZE_UE5
SIZE_UE5 == 16

\* FUObjectItem::read and is_valid
FUObjectItemRead(image, address) ==
    LET data == RemoteRead(image, address, 16)
    IN  IF ~data.ok THEN Err
        ELSE Ok([object |-> UsizeFromLe(SubSeq(data.v, 1, 8)),
                 flags |-> FromLe(SubSeq(data.v, 9, 12), "I32", 4)])

is_valid(item) == item.object # 0 /\ item.flags % 2 = 0

\* FUObjectArray::read: objects at 16, num_elements at 36
FUObjectArrayRead(image, address) ==
    LET data == RemoteRead(image, address, 64)
    IN  IF ~data.ok THEN Err
        ELSE Ok([objects |-> UsizeFromLe(SubSeq(data.v, 17, 24)),
                 num_elements |-> FromLe(SubSeq(data.v, 37, 40), "I32", 4)])

\* an item address that takes every index from the first chunk
get_object_item_address_first_chunk(arr, image, index) ==
    LET chunk_ptr_data == RemoteRead(image, arr.objects, 8)
    IN  IF index < 0 \/ index >= arr.num_elements THEN Err
        ELSE IF ~chunk_ptr_data.ok THEN Err
        ELSE IF UsizeFromLe(chunk_ptr_data.v) = 0 THEN Err
        ELSE Ok(UsizeFromLe(chunk_ptr_data.v) + index * SIZE_UE5)

\* FChunkedFixedUObjectArray::get_object_item_address
get_object_item_address(arr, image, index) ==
    LET chunk_index == index \div NUM_ELEMENTS_PER_CHUNK
        within_chunk_index == index % NUM_ELEMENTS_PER_CHUNK
        chunk_ptr_data == RemoteRead(image, arr.objects + chunk_index * 8, 8)
    IN  IF index < 0 \/ index >= arr.num_elements THEN Err
        ELSE IF ~chunk_ptr_data.ok THEN Err
        ELSE IF UsizeFromLe(chunk_ptr_data.v) = 0 THEN Err
        ELSE Ok(UsizeFromLe(chunk_ptr_data.v) + within_chunk_index * SIZE_UE5)

\* FUObjectArray::get_object_address
get_object_address(arr, image, index) ==
    LET item_addr == get_object_item_address(arr, image, index)
        item == FUObjectItemRead(image, item_addr.v)
    IN  IF ~item_addr.ok THEN Err
        ELSE IF ~item.ok THEN Err
        ELSE IF ~is_valid(item.v) THEN Err
        ELSE Ok(item.v.object)

\* FUObjectArray::get_all_objects: for i in 0..num_elements, push when Ok
get_all_objects(arr, image) ==
    LET IsOk(r) == r.ok
        found == SelectSeq([i \in 1..arr.num_elements |-> get_object_address(arr, image, i - 1)],
                           IsOk)
    IN  [k \in 1..Len(found) |-> found[k].v]

(* The array as the engine lays it out: the FUObjectArray at 0, the chunk  *)
(* table behind it, chunk c at ChunkBase(c); the items listed are present, *)
(* a chunk pointer or an item may be unreadable.                           *)
ChunkTable == 64

ChunkBase(c) == 128 + c * NUM_ELEMENTS_PER_CHUNK * SIZE_UE5

\* the object pointer item i holds
ObjectOf(i) == 10 + (i % NUM_ELEMENTS_PER_CHUNK) + (i \div NUM_ELEMENTS_PER_CHUNK) * 100

ItemBytes(i, state) ==
    LET object == ToLe(ObjectOf(i), 4) \o Zeros(4)
    IN  CASE state = "valid" -> object \o Zeros(8)
          [] state = "other_flag" -> object \o <<2>> \o Zeros(7)
          [] state = "zero" -> Zeros(16)
          [] state = "flagged" -> object \o <<1>> \o Zeros(7)
          [] state = "negative_flags" -> object \o <<255, 255, 255, 255>> \o Zeros(4)
          [] state = "unreadable" -> << >>

\* the bytes placed at base, as (address + 1, byte) pairs
Placed(base, bytes) == {<<base + i, bytes[i]>> : i \in 1..Len(bytes)}

ArrayImage(a) ==
    LET header == Zeros(16) \o <<ChunkTable>> \o Zeros(19) \o ToLe(a.num_elements, 4) \o Zeros(24)
        table == UNION {IF a.chunks[c + 1] = "unreadable" THEN {}
                        ELSE Placed(ChunkTable + 8 * c,
                                    IF a.chunks[c + 1] = "null" THEN Zeros(8)
                                    ELSE ToLe(ChunkBase(c), 4) \o Zeros(4)) : c \in {0, 1}}
        items == UNION {Placed(ChunkBase(i \div NUM_ELEMENTS_PER_CHUNK)
                                 + (i % NUM_ELEMENTS_PER_CHUNK) * SIZE_UE5,
                               ItemBytes(i, a.items[i])) : i \in DOMAIN a.items}
        pairs == Placed(0, header) \cup table \cup items
    IN  [k \in {p[1] : p \in pairs} |-> (CHOOSE p \in pairs : p[1] = k)[2]]

ItemStates == {"valid", "other_flag", "zero", "flagged", "negative_flags", "unreadable"}

\* arrays of up to three items, and arrays that reach into the second chunk
ArrayInputs ==
    {<<[num_elements |-> n, chunks |-> <<c, "null">>, items |-> it]>> :
        n \in {0, 2, 3}, c \in {"ok", "null", "unreadable"}, it \in [0..2 -> ItemStates]}
    \cup
    {<<[num_elements |-> NUM_ELEMENTS_PER_CHUNK + 1, chunks |-> <<c0, c1>>,
        items |-> (0 :> "valid" @@ 1 :> "zero" @@ 2 :> "flagged"
                     @@ (NUM_ELEMENTS_PER_CHUNK - 1) :> "other_flag"
                     @@ NUM_ELEMENTS_PER_CHUNK :> st)]>> :
        c0 \in {"ok", "unreadable"}, c1 \in {"ok", "null", "unreadable"},
        st \in {"valid", "flagged", "unreadable"}}

\* FUObjectArray::read at gobjects, then get_all_objects
get_all_objects_call ==
    /\ fcall.fn = "input"
    /\ fcall' = FCall("get_all_objects", fcall.args,
                      LET image == ArrayImage(fcall.args[1])
                          arr == FUObjectArrayRead(image, 0)
                      IN  IF arr.ok THEN Ok(get_all_objects(arr.v, image)) ELSE Err)
    /\ UNCHANGED <<scanVars, engines, ecall, necalls, target, unreal, remote_allocs, threads, life>>

----------------------------------------------------------------------------
(* engine/types.rs: Value, and engine/unreal/methods.rs: write_field_impl *)

(* A Value: its variant and payload.  An integer payload is the number, a  *)
(* Bool the truth value, a float its bit pattern (an f64 as the low and    *)
(* high 32 bits), a Struct its bytes.                                      *)
EValue(kind, payload) == [kind |-> kind, payload |-> payload]

\* i64::to_le_bytes of a number within i32's range: the sign fills the upper half
I64ToLe(v) == ToLe(v, 4) \o (IF v < 0 THEN <<255, 255, 255, 255>> ELSE Zeros(4))

\* the bytes write_field_impl sends, or none for a variant it rejects
WriteFieldData(value) ==
    CASE value.kind = "Bool" -> Some(IF value.payload THEN <<1>> ELSE <<0>>)
      [] value.kind \in {"I32", "F32"} -> Some(ToLe(value.payload, 4))
      [] value.kind = "I64" -> Some(I64ToLe(value.payload))
      [] value.kind = "F64" -> Some(ToLe(value.payload[1], 4) \o ToLe(value.payload[2], 4))
      [] value.kind = "Struct" -> Some(value.payload)
      [] OTHER -> None

\* UnrealEngine::write_field_impl; write_ok is what write_process_memory answers
write_field_impl(instance_addr, field_offset, value, write_ok) ==
    LET data == WriteFieldData(value)
    IN  IF ~IsSome(data) THEN [ret |-> "TypeMismatch", written |-> None]
        ELSE IF ~write_ok THEN [ret |-> "PlatformError", written |-> None]
        ELSE [ret |-> "Ok", written |-> Some(<<instance_addr + field_offset, Unwrap(data)>>)]

EngineValues ==
    {EValue("Null", 0), EValue("Bool", TRUE), EValue("Bool", FALSE),
     EValue("String", <<72, 80>>), EValue("Object", 4096), EValue("Array", << >>),
     EValue("Struct", << >>), EValue("Struct", <<1, 2, 3>>),
     EValue("F32", 1065353216), EValue("F64", <<0, 1072693248>>)}
    \cup {EValue(k, v) : k \in {"I8", "I16", "I32", "I64"}, v \in {-128, -1, 0, 100}}
    \cup {EValue(k, v) : k \in {"U8", "U16", "U32", "U64"}, v \in {0, 1, 255}}

WriteFieldInputs == {16, 4096} \X {0, 8} \X EngineValues \X BOOLEAN

\* a call of write_field_impl on the arguments drawn
write_field_call ==
    /\ fcall.fn = "input"
    /\ fcall' = FCall("write_field", fcall.args,
                      write_field_impl(fcall.args[1], fcall.args[2], fcall.args[3], fcall.args[4]))
    /\ UNCHANGED <<scanVars, engines, ecall, necalls, target, unreal, remote_allocs, threads, life>>

----------------------------------------------------------------------------
(* engine/unreal/methods.rs: the walks of a class's Children and           *)
(* ChildProperties lists, and engine/unreal/mod.rs: read_field, write_field *)

(* The remote objects of one list, decoded: the class's UStruct, whose     *)
(* head pointer is children (the Children or the ChildProperties list),    *)
(* and the nodes, each with its Next pointer, its name and the eight       *)
(* 4-byte words get_field_info_impl probes for Offset_Internal.  A node    *)
(* outside readable fails every read; one in unnamed has no name entry.    *)
Nodes == {512, 1024}

MaxVisits == 1001

WALK_CAP == 1000

\* the words at +56, +60, +64, +68, +72, +44, +48, +52 of each node
FieldProbes ==
    (512 :> <<Some(8), Some(0), Some(0), Some(0), Some(0), Some(0), Some(0), Some(0)>>)
    @@ (1024 :> <<Some(-1), None, Some(12), Some(0), Some(0), Some(0), Some(0), Some(0)>>)

LinkGraphs ==
    {g \in [class_readable : BOOLEAN, children : Nodes \cup {0},
            next : [Nodes -> Nodes \cup {0}], readable : SUBSET Nodes,
            unnamed : {{}, {512}},
            name : {(512 :> a) @@ (1024 :> b) : <<a, b>> \in {<<"Mp", "Hp">>, <<"Hp", "Mp">>, <<"Mp", "Mp">>}},
            probes : {FieldProbes}] :
        g.class_readable \/ (g.readable = Nodes /\ g.unnamed = {})}

\* UStruct::read of the class, giving the head of the list
UStructRead(g) == IF g.class_readable THEN Ok(g.children) ELSE Err

\* get_object_name_impl / FField::read then get_fname_impl of a node
NodeName(g, addr) ==
    IF addr \in g.readable /\ addr \notin g.unnamed THEN Ok(g.name[addr]) ELSE Err

\* the read of a node's Next pointer
NodeNext(g, addr) == IF addr \in g.readable THEN Ok(g.next[addr]) ELSE Err

\* the position of a walk: the loop's variables, the result once it returned
Walking(current_field, count, visited, found) ==
    [pc |-> "loop", current_field |-> current_field, count |-> count,
     visited |-> visited, found |-> found, ret |-> "", value |-> 0]

Returned(w, ret, value) == [w EXCEPT !.pc = "done", !.ret = ret, !.value = value]

Visit(w) == [w EXCEPT !.visited = @ + 1]

Walkers == {"find_method", "enumerate_methods", "find_field", "enumerate_fields"}

\* the entry of each walk: UStruct::read(handle, class_addr)?
walk_enter ==
    /\ fcall.fn = "input"
    /\ fcall.args[1] \in Walkers
    /\ LET head == UStructRead(fcall.args[2])
       IN  fcall' = FCall(fcall.args[1], fcall.args,
                IF head.ok THEN Walking(head.v, 0, 0, << >>)
                ELSE Returned(Walking(0, 0, 0, << >>), "PlatformError", 0))
    /\ UNCHANGED <<scanVars, engines, ecall, necalls, target, unreal, remote_allocs, threads, life>>

\* one test of the loop condition of find_method_impl and one iteration
find_method_iteration(g, method_name, w) ==
    IF w.current_field = 0 THEN Returned(w, "MethodNotFound", 0)
    ELSE LET v == Visit(w)
             name == NodeName(g, w.current_field)
             next == NodeNext(g, w.current_field)
         IN  IF name.ok /\ name.v = method_name THEN Returned(v, "Ok", w.current_field)
             ELSE IF ~next.ok THEN Returned(v, "PlatformError", 0)
             ELSE [v EXCEPT !.current_field = next.v]

\* one test of the loop condition of enumerate_methods_impl and one iteration
enumerate_methods_iteration(g, w) ==
    IF ~(w.current_field # 0 /\ w.count < WALK_CAP) THEN Returned(w, "Ok", 0)
    ELSE LET v == [Visit(w) EXCEPT !.count = @ + 1]
             name == NodeName(g, w.current_field)
             pushed == IF name.ok THEN [v EXCEPT !.found = Append(@, w.current_field)] ELSE v
             next == NodeNext(g, w.current_field)
         IN  IF next.ok THEN [pushed EXCEPT !.current_field = next.v]
             ELSE Returned(pushed, "Ok", 0)

\* one test of the loop condition of find_field_impl and one iteration
find_field_iteration(g, field_name, w) ==
    IF w.current_field = 0 THEN Returned(w, "FieldNotFound", 0)
    ELSE LET v == Visit(w)
             field == NodeNext(g, w.current_field)
             name == NodeName(g, w.current_field)
         IN  IF ~field.ok THEN Returned(v, "FieldNotFound", 0)
             ELSE IF name.ok /\ name.v = field_name THEN Returned(v, "Ok", w.current_field)
             ELSE [v EXCEPT !.current_field = field.v]

\* get_field_info_impl: the offset is the first probed word in 0..65535, else 0
get_field_info_impl(g, field_addr) ==
    LET name == NodeName(g, field_addr)
        valid == {k \in 1..8 : /\ IsSome(g.probes[field_addr][k])
                               /\ Unwrap(g.probes[field_addr][k]) >= 0
                               /\ Unwrap(g.probes[field_addr][k]) < 65536}
        first == CHOOSE k \in valid : \A j \in valid : k <= j
    IN  IF ~name.ok THEN Err
        ELSE Ok([name |-> name.v, handle |-> field_addr,
                 offset |-> IF valid = {} THEN 0
                            ELSE Unwrap(g.probes[field_addr][first])])

\* one test of the loop condition of enumerate_fields_impl and one iteration
enumerate_fields_iteration(g, w) ==
    IF ~(w.current_field # 0 /\ w.count < WALK_CAP) THEN Returned(w, "Ok", 0)
    ELSE LET v == [Visit(w) EXCEPT !.count = @ + 1]
             field == NodeNext(g, w.current_field)
             info == get_field_info_impl(g, w.current_field)
         IN  IF ~field.ok THEN Returned(v, "Ok", 0)
             ELSE [(IF info.ok THEN [v EXCEPT !.found = Append(@, info.v)] ELSE v)
                        EXCEPT !.current_field = field.v]

WalkStep(fn, w) ==
    /\ fcall.fn = fn
    /\ fcall.out.pc = "loop"
    /\ fcall.out.visited < MaxVisits
    /\ fcall' = [fcall EXCEPT !.out = w]
    /\ UNCHANGED <<scanVars, engines, ecall, necalls, target, unreal, remote_allocs, threads, life>>

find_method_step ==
    WalkStep("find_method", find_method_iteration(fcall.args[2], fcall.args[3], fcall.out))

enumerate_methods_step ==
    WalkStep("enumerate_methods", enumerate_methods_iteration(fcall.args[2], fcall.out))

find_field_step ==
    WalkStep("find_field", find_field_iteration(fcall.args[2], fcall.args[3], fcall.out))

enumerate_fields_step ==
    WalkStep("enumerate_fields", enumerate_fields_iteration(fcall.args[2], fcall.out))

\* UnrealEngine::read_field_impl for the I32 type: the 4 bytes it reads
read_field_impl(instance_addr, field_offset, read_ok) ==
    [addr |-> instance_addr + field_offset, size |-> 4,
     ret |-> IF read_ok THEN "Ok" ELSE "PlatformError"]

Instances == {4096, 8192}

\* EngineBackend::read_field on the handle find_field returned
read_field ==
    /\ fcall.fn = "find_field"
    /\ fcall.out.pc = "done" /\ fcall.out.ret = "Ok"
    /\ \E instance \in Instances, read_ok \in BOOLEAN :
          LET field == fcall.out.value
          IN  fcall' = FCall("read_field", <<fcall.args[2], instance, field>>,
                             read_field_impl(instance, field, read_ok))
    /\ UNCHANGED <<scanVars, engines, ecall, necalls, target, unreal, remote_allocs, threads, life>>

\* EngineBackend::write_field on the handle find_field returned
write_field ==
    /\ fcall.fn = "find_field"
    /\ fcall.out.pc = "done" /\ fcall.out.ret = "Ok"
    /\ \E instance \in Instances, write_ok \in BOOLEAN :
          LET field == fcall.out.value
          IN  fcall' = FCall("write_field", <<fcall.args[2], instance, field>>,
                             write_field_impl(instance, field, EValue("I32", 7), write_ok))
    /\ UNCHANGED <<scanVars, engines, ecall, necalls, target, unreal, remote_allocs, threads, life>>

WalkInputs == Walkers \X LinkGraphs \X {"Hp"}

----------------------------------------------------------------------------
(* engine/unreal/implementation.rs: find_class_by_name_impl *)

\* the names of the objects 1..MaxObjects in the name pool
ObjectNames == [o \in 1..MaxObjects |-> IF o <= 2 THEN "Actor" ELSE "Pawn"]

\* get_object_name_impl: UObject::read, then get_fname_impl
get_object_name_impl(g, obj_addr) ==
    IF UObjectRead(g, obj_addr).ok /\ obj_addr \notin g.unnamed
    THEN Ok(ObjectNames[obj_addr]) ELSE Err

\* for obj_addr in all_objects of find_class_by_name_impl
RECURSIVE FindClassLoop(_, _, _)
FindClassLoop(g, name, all_objects) ==
    IF all_objects = << >> THEN [ret |-> "ClassNotFound", value |-> 0]
    ELSE LET obj_addr == Head(all_objects)
             obj_name == get_object_name_impl(g, obj_addr)
             obj == UObjectRead(g, obj_addr)
             class_obj == UObjectRead(g, obj.v)
             rest == FindClassLoop(g, name, Tail(all_objects))
         IN  IF ~(obj_name.ok /\ obj_name.v = name) THEN rest
             ELSE IF ~obj.ok THEN [ret |-> "PlatformError", value |-> 0]
             ELSE IF obj.v = 0 THEN rest
             ELSE IF ~class_obj.ok THEN [ret |-> "PlatformError", value |-> 0]
             ELSE IF class_obj.v = obj.v THEN [ret |-> "Ok", value |-> obj_addr]
             ELSE rest

find_class_by_name_impl(g, name) ==
    IF get_all_objects_impl(g).ok THEN FindClassLoop(g, name, get_all_objects_impl(g).v)
    ELSE [ret |-> "PlatformError", value |-> 0]

\* a call of find_class_by_name_impl on the objects and the name drawn
find_class_call ==
    /\ fcall.fn = "input"
    /\ fcall' = FCall("find_class", fcall.args,
                      find_class_by_name_impl(fcall.args[1], fcall.args[2]))
    /\ UNCHANGED <<scanVars, engines, ecall, necalls, target, unreal, remote_allocs, threads, life>>

----------------------------------------------------------------------------
(* engine/unreal/signatures.rs and implementation.rs: the operand of a     *)
(* signature match and the pointer location it gives                       *)

(* The signatures, part by part: a byte, or -1 for the wildcard "??". *)
GNAMES_UE5_1 ==
    <<72, 139, 5, -1, -1, -1, -1, 76, 139, 195, 72, 139, 215>>

GNAMES_UE5_2 ==
    <<72, 141, 13, -1, -1, -1, -1, 232, -1, -1, -1, -1, 72, 139, 216, 72, 133, 192, 116>>

GNAMES_ALT ==
    <<72, 139, 29, -1, -1, -1, -1, 72, 133, 219, 117, -1, 185>>

GNAMES_ALT5 ==
    <<72, 139, 29, -1, -1, -1, -1, 72, 133, 219, 116>>

GNAMES_ALT4 ==
    <<72, 141, 13, -1, -1, -1, -1, 232, -1, -1, -1, -1, 198, 5>>

GNAMES ==
    <<72, 139, 5, -1, -1, -1, -1, 72, 133, 192, 117, -1, 72, 141>>

GNAMES_ALT2 ==
    <<72, 137, 92, 36, -1, 72, 137, 116, 36, -1, 85, 87, 65, 86, 72, 141, 108, 36, -1, 72, 129, 236, -1, -1, -1, -1,
      72, 139, 5, -1, -1, -1, -1>>

GNAMES_ALT3 ==
    <<72, 139, 5, -1, -1, -1, -1, 72, 133, 192>>

GOBJECTS_UE5 ==
    <<72, 139, 5, -1, -1, -1, -1, 72, 99, 12, 136>>

GOBJECTS ==
    <<72, 139, 13, -1, -1, -1, -1, 72, 141, 20, 193>>

GOBJECTS_ALT ==
    <<72, 139, 5, -1, -1, -1, -1, 72, 139, 12, 200, 72, 141, 4, 209>>

\* VersionSignatures::all(): gnames_patterns and gobjects_patterns, in order
gnames_patterns ==
    <<GNAMES_UE5_1, GNAMES_UE5_2, GNAMES_ALT, GNAMES_ALT5, GNAMES_ALT4, GNAMES,
      GNAMES_ALT2, GNAMES_ALT3>>

gobjects_patterns == <<GOBJECTS_UE5, GOBJECTS, GOBJECTS_ALT>>

\* pattern_str.len(): two characters a part, one space between parts
StrLen(sig) == 3 * Len(sig) - 1

\* pattern_str.starts_with of three bytes
StartsWith(sig, prefix) == Len(sig) >= 3 /\ SubSeq(sig, 1, 3) = prefix

\* (offset_pos, instruction_end) of find_gnames_impl; pattern.len() is Len(sig)
gnames_operand(sig) ==
    IF StartsWith(sig, <<72, 141, 13>>) THEN <<3, 7>>
    ELSE IF StartsWith(sig, <<72, 139, 29>>) THEN <<3, 7>>
    ELSE IF StrLen(sig) > 50 THEN <<Len(sig) - 7, Len(sig) - 3>>
    ELSE <<3, 7>>

\* find_gobjects_impl reads inst_data[3..7] and adds 7
gobjects_operand(sig) == <<3, 7>>

(* The pointer location of one match: the operand read at offset_pos of    *)
(* the instruction bytes, added to the match address and instruction_end   *)
(* (the sum as i64, before the cast to usize).                             *)
resolve_rip(operand, address, inst_data) ==
    LET rel_offset == I32At(inst_data, operand[1])
    IN  [offset_pos |-> operand[1], instruction_end |-> operand[2],
         rel_offset |-> rel_offset, ptr |-> address + operand[2] + rel_offset]

(* the RIP-relative instructions of a signature: REX.W, opcode 8B (mov) or *)
(* 8D (lea), a ModRM byte with mod = 00 and r/m = 101, four wildcards      *)
RipInstructions(sig) ==
    {i \in 1..(Len(sig) - 6) :
        /\ sig[i] = 72 /\ sig[i + 1] \in {139, 141}
        /\ sig[i + 2] % 8 = 5 /\ sig[i + 2] < 64
        /\ \A k \in (i + 3)..(i + 6) : sig[k] = -1}

(* The bytes at a match of the signature in the target: the signature's    *)
(* bytes, the displacement rel in the operand of its RIP-relative          *)
(* instruction, 32 in every other wildcard, and 8 bytes of what follows.   *)
MatchBytes(sig, rel) ==
    [i \in 1..(Len(sig) + 8) |->
        IF i > Len(sig) THEN 144
        ELSE IF sig[i] >= 0 THEN sig[i]
        ELSE IF \E r \in RipInstructions(sig) : i \in (r + 3)..(r + 6)
             THEN LET r == CHOOSE r \in RipInstructions(sig) : i \in (r + 3)..(r + 6)
                  IN  ToLe(rel, 4)[i - r - 2]
             ELSE 32]

AnchorInputs ==
    {<<"GNames", i>> : i \in 1..Len(gnames_patterns)}
    \cup {<<"GObjects", i>> : i \in 1..Len(gobjects_patterns)}

SignatureOf(anchor) ==
    IF anchor[1] = "GNames" THEN gnames_patterns[anchor[2]] ELSE gobjects_patterns[anchor[2]]

ResolveInputs == AnchorInputs \X {4096, 8192} \X {-16, 0, 256, 70000}

\* the resolution of one match of one signature, in find_gnames_impl or find_gobjects_impl
resolve_call ==
    /\ fcall.fn = "input"
    /\ LET sig == SignatureOf(fcall.args[1])
           operand == IF fcall.args[1][1] = "GNames" THEN gnames_operand(sig)
                      ELSE gobjects_operand(sig)
       IN  fcall' = FCall("resolve", fcall.args,
                          resolve_rip(operand, fcall.args[2], MatchBytes(sig, fcall.args[3])))
    /\ UNCHANGED <<scanVars, engines, ecall, necalls, target, unreal, remote_allocs, threads, life>>

----------------------------------------------------------------------------
(* Specifications *)

\* total function on DataAddrs from a sequence of bytes
Image(bs) == [a \in DataAddrs |-> bs[a + 1]]

\* memory images of the target when the process is opened
InitImages == {Image(<<255, 255, 1, 0, 0>>), Image(<<255, 0, 1, 255, 1>>)}

\* an anchor's patterns: none matches; scan errors and unusable matches; the
\* last pattern alone gives a usable match; the first does
AnchorImages(n) ==
    {[i \in 1..n |-> "NoMatch"],
     [i \in 1..n |-> IF i % 2 = 1 THEN "ScanErr" ELSE "Invalid"],
     [i \in 1..n |-> IF i = n THEN "Valid" ELSE "ScanErr"],
     [i \in 1..n |-> IF i = 1 THEN "Valid" ELSE "NoMatch"]}

\* the targets an UnrealEngine may be pointed at
AllTargets ==
    [module : BOOLEAN,
     gobjects : AnchorImages(GObjectsPatterns),
     gnames : AnchorImages(GNamesPatterns),
     gnames_value : {"Pointer", "Null", "NullShort", "Gone"},
     process_event : AnchorImages(ProcessEventPatterns)]

\* a target in which every anchor is found by its first pattern
InitTargets ==
    {t \in AllTargets :
        /\ t.module /\ t.gnames_value = "Pointer"
        /\ t.gobjects[1] = "Valid" /\ t.gnames[1] = "Valid" /\ t.process_event[1] = "Valid"}

\* Scanner::new(process), and the engines as their constructors leave them
Init ==
    /\ mem \in InitImages
    /\ unreadable = {}
    /\ handleValid = TRUE
    /\ results = << >>
    /\ value_type = VT("I32")
    /\ scan_count = 0
    /\ call = NoCall
    /\ ncalls = 0
    /\ nenv = 0
    /\ engines = [k \in EngineKinds |-> FALSE]
    /\ ecall = ECall("Native", "new", FALSE, FALSE, "Ok")
    /\ necalls = 0
    /\ target \in InitTargets
    /\ unreal = NewUnreal
    /\ remote_allocs = 0
    /\ threads = NoThreads
    /\ life = ScannerOwnsProcess
    /\ fcall = NoFCall

\* the scanner's life: scans with the builder's options, next scans, resets, reads, writes
Next ==
    \/ \E q \in FirstQueries, o \in BuilderOptions : first_scan(q[2], q[1], o)
    \/ \E q \in NextQueries : next_scan(q[2], q[1])
    \/ reset
    \/ \E a \in {0, 4}, vt \in {VT("U8"), VT("I16")} : read_value(a, vt)
    \/ \E a \in {0, 2} : write_value(a, IntValue("U8", 255))
    \/ \E a \in {0, 1}, b \in ByteVals : TargetWrite(a, b)
    \/ \E a \in {0, 1} : PageLost(a)
    \/ HandleClosed

Spec == Init /\ [][Next]_vars

(* first_scan reads nothing of the scanner's state (it clears the results, *)
(* sets the value type and the count), so its outcome is decided by its    *)
(* arguments and the target: the scan that opens a session covers it.      *)
opening_scan(value, scan_type, options) ==
    /\ ncalls = 0
    /\ first_scan(value, scan_type, options)

\* one first scan with any options, over the states the target can be in
NextFirstScan ==
    \/ \E q \in Queries, o \in AllOptions : opening_scan(q[2], q[1], o)
    \/ \E a \in {2, 4} : PageLost(a)
    \/ HandleClosed

SpecFirstScan == Init /\ [][NextFirstScan]_vars

\* the engine facade
NextEngine ==
    \/ \E k \in EngineKinds : initialize(k)
    \/ \E k \in EngineKinds, op \in FacadeOps, i \in BOOLEAN : facade_call(k, op, i)

SpecEngine == Init /\ [][NextEngine]_vars

\* the pattern scanner over a target that changes
NextPattern ==
    \/ \E p \in Patterns, m \in Modules : scan_pattern_call(p, m[1], m[2])
    \/ \E a \in DataAddrs, b \in ByteVals : TargetWrite(a, b)
    \/ \E a \in {0, 3} : PageLost(a)
    \/ HandleClosed

SpecPattern == Init /\ [][NextPattern]_vars

\* a free function about to be called on arguments drawn from inputs
InitFunction(inputs) ==
    /\ mem = Image(<<255, 255, 1, 0, 0>>)
    /\ unreadable = {}
    /\ handleValid = TRUE
    /\ results = << >>
    /\ value_type = VT("I32")
    /\ scan_count = 0
    /\ call = NoCall
    /\ ncalls = 0
    /\ nenv = 0
    /\ engines = [k \in EngineKinds |-> FALSE]
    /\ ecall = ECall("Native", "new", FALSE, FALSE, "Ok")
    /\ necalls = 0
    /\ target \in InitTargets
    /\ unreal = NewUnreal
    /\ remote_allocs = 0
    /\ threads = NoThreads
    /\ life = ScannerOwnsProcess
    /\ fcall \in {FCall("input", args, << >>) : args \in inputs}

InitClasses == InitFunction({<<g>> : g \in ClassGraphs})

\* enumerate_classes on each object graph
SpecClasses == InitClasses /\ [][enumerate_classes_call]_vars

InitFindClass == InitFunction(ClassGraphs \X {"Actor", "Pawn"})

\* find_class on each object graph and name
SpecFindClass == InitFindClass /\ [][find_class_call]_vars

InitRegion == InitFunction(RegionInputs)

\* the unknown-initial scan of each region
SpecRegion == InitRegion /\ [][unknown_scan_call]_vars

InitValue == InitFunction(ValueInputs)

NextValue ==
    \/ from_bytes_call
    \/ to_bytes_of_from_bytes
    \/ to_bytes_call
    \/ from_bytes_of_to_bytes

\* the conversions between scan values and bytes
SpecValue == InitValue /\ [][NextValue]_vars

InitNames == InitFunction(PoolInputs)

\* get_fname on each pool and id
NextNames == \E id \in PoolIds(fcall.args[1], fcall.args[2]) : get_fname_call(id)

SpecNames == InitNames /\ [][NextNames]_vars

InitArray == InitFunction(ArrayInputs)

\* get_all_objects on each object array
SpecArray == InitArray /\ [][get_all_objects_call]_vars

InitWriteField == InitFunction(WriteFieldInputs)

\* write_field_impl on each value
SpecWriteField == InitWriteField /\ [][write_field_call]_vars

InitWalk == InitFunction(WalkInputs)

NextWalk ==
    \/ walk_enter
    \/ find_method_step
    \/ enumerate_methods_step
    \/ find_field_step
    \/ enumerate_fields_step
    \/ read_field
    \/ write_field

\* the list walks on each remote object graph, and the field accesses
SpecWalk == InitWalk /\ [][NextWalk]_vars

\* before Process::open: no wrapper, no handle, no engine
InitLifetime ==
    /\ mem \in InitImages
    /\ unreadable = {}
    /\ handleValid = FALSE
    /\ results = << >>
    /\ value_type = VT("I32")
    /\ scan_count = 0
    /\ call = NoCall
    /\ ncalls = 0
    /\ nenv = 0
    /\ engines = [k \in EngineKinds |-> FALSE]
    /\ ecall = ECall("Unreal", "new", FALSE, FALSE, "Ok")
    /\ necalls = 0
    /\ target \in InitTargets
    /\ unreal = NewUnreal
    /\ remote_allocs = 0
    /\ threads = NoThreads
    /\ life = NoProcess
    /\ fcall = NoFCall

NextLifetime ==
    \/ process_open
    \/ scanner_new
    \/ engine_new
    \/ process_drop
    \/ engine_drop
    \/ \E op \in {"read", "write", "query"} : scanner_issue(op)
    \/ \E op \in {"read", "write", "query", "alloc"} : engine_issue(op)

\* a process opened, a scanner and an engine made on it, used and dropped
SpecLifetime == InitLifetime /\ [][NextLifetime]_vars

InitResolve == InitFunction(ResolveInputs)

\* the pointer location of a match of each GNames and GObjects signature
SpecResolve == InitResolve /\ [][resolve_call]_vars

InitSimd == InitFunction(SimdInputs)

\* scan_i32 on each buffer, target, alignment and processor
SpecSimd == InitSimd /\ [][scan_i32_call]_vars

\* UnrealEngine::new on any target
InitUnreal ==
    /\ mem \in InitImages
    /\ unreadable = {}
    /\ handleValid = TRUE
    /\ results = << >>
    /\ value_type = VT("I32")
    /\ scan_count = 0
    /\ call = NoCall
    /\ ncalls = 0
    /\ nenv = 0
    /\ engines = [k \in EngineKinds |-> FALSE]
    /\ ecall = ECall("Unreal", "new", FALSE, FALSE, "Ok")
    /\ necalls = 0
    /\ target \in AllTargets
    /\ unreal = NewUnreal
    /\ remote_allocs = 0
    /\ threads = NoThreads
    /\ life = ScannerOwnsProcess
    /\ fcall = NoFCall

\* the Unreal backend: initialize, and the two operations that test the flag
NextUnreal ==
    \/ initialize("Unreal")
    \/ \E op \in {"find_class", "invoke"} : facade_call("Unreal", op, TRUE)

SpecUnreal == InitUnreal /\ [][NextUnreal]_vars

----------------------------------------------------------------------------
(* Properties of the scanner *)

\* a step in which the named scanner operation returns
Returns(op) == ncalls' = ncalls + 1 /\ call'.op = op

\* the addresses of a result list, in order
Addresses(rs) == [i \in 1..Len(rs) |-> rs[i].address]

RECURSIVE IsSubsequence(_, _)
IsSubsequence(s, t) ==
    IF s = << >> THEN TRUE
    ELSE IF t = << >> THEN FALSE
    ELSE IF Head(s) = Head(t) THEN IsSubsequence(Tail(s), Tail(t))
    ELSE IsSubsequence(s, Tail(t))

\* the k bytes the target holds at address a
MemBytes(a, k) == [i \in 1..k |-> mem[a + i - 1]]

\* the number a sized little-endian value decodes to
Decoded(bytes, vt) == from_bytes(bytes, vt).value.val

\* a history predicate, on the fresh and the stored number
HistoryHolds(tag, fresh, stored) ==
    CASE tag = "Increased" -> fresh > stored
      [] tag = "Decreased" -> fresh < stored
      [] tag = "Changed" -> fresh # stored
      [] tag = "Unchanged" -> fresh = stored

\* the candidate r of the list before the call is in the list after it
Kept(r) == \E i \in 1..Len(results') : results'[i].address = r.address

(* C1: every next_scan leaves a subsequence of the result list it found    *)
(* (same addresses, same order, nothing added), and each survivor's        *)
(* previous_value is what its current_value was before the call while its  *)
(* current_value holds the bytes freshly read at its address.              *)
C1_NextScanNarrows ==
    [][Returns("next_scan") =>
        /\ IsSubsequence(Addresses(results'), Addresses(results))
        /\ \A i \in 1..Len(results') :
              \E j \in 1..Len(results) :
                 /\ results[j].address = results'[i].address
                 /\ results'[i].previous_value = Unwrap(results[j].current_value)
                 /\ results'[i].current_value =
                        Some(MemBytes(results'[i].address, size(value_type)))]_vars

\* a next_scan kept a candidate whose bytes had changed since the scan before
C1_Witness ==
    /\ call.op = "next_scan"
    /\ call.n = Len(results)
    /\ \E i \in 1..Len(results) :
          /\ results[i].previous_value # Unwrap(results[i].current_value)
          /\ Unwrap(results[i].current_value) = MemBytes(results[i].address, size(value_type))

(* C2: every result of a first_scan sits at a multiple of the alignment,   *)
(* inside (with its size(T) bytes) a region the query reports and the      *)
(* filters pass, and its current bytes decode to a value that satisfies    *)
(* the predicate against the reference value.                              *)
C2_FirstScanResultsInRegions ==
    [][Returns("first_scan") =>
        LET o == call'.options
            regions == ScannedRegions(o)
        IN  \A i \in 1..Len(results') :
              LET r == results'[i]
                  found == from_bytes(Unwrap(r.current_value), o.value_type)
              IN  /\ r.address % o.alignment = 0
                  /\ \E k \in 1..Len(regions) :
                        /\ regions[k].base_address <= r.address
                        /\ r.address < regions[k].base_address + regions[k].size
                        /\ r.address + size(o.value_type)
                              <= regions[k].base_address + regions[k].size
                  /\ found.kind = "Some"
                  /\ \/ call'.scan_type.tag = "Unknown"
                     \/ compare(found.value, call'.value, call'.scan_type)]_vars

(* C3: in next_scan a history predicate (Increased, Decreased, Changed,    *)
(* Unchanged) keeps a candidate exactly when its freshly read value stands *)
(* in that relation to the current value stored for it by the last scan it *)
(* survived; neither its first-scan value nor the reference value counts.  *)
C3_HistoryAgainstStoredCurrent ==
    [][(Returns("next_scan") /\ call'.scan_type \in HistoryTypes) =>
        \A j \in 1..Len(results) :
           LET r == results[j]
               fresh == read_memory(r.address, size(value_type))
           IN  Kept(r) <=>
                  /\ fresh.ok
                  /\ HistoryHolds(call'.scan_type.tag,
                                  Decoded(fresh.v, value_type),
                                  Decoded(Unwrap(r.current_value), value_type))]_vars

(* The byte at address 0 is 255 at the first scan, then 0, then 1: the     *)
(* second next_scan (Increased) kept it, 1 being above the 0 stored by the *)
(* scan before and below the 255 of the first scan.                        *)
C3_Witness ==
    /\ call.op = "next_scan"
    /\ call.scan_type = ST("Increased")
    /\ scan_count = 3
    /\ value_type = VT("U8")
    /\ \E i \in 1..Len(results) :
          /\ results[i].address = 0
          /\ results[i].previous_value = <<0>>
          /\ results[i].current_value = Some(<<1>>)

(* C4: in every state every result holds a previous value and a present    *)
(* current value, both of size(value_type) bytes.                          *)
C4_ResultsSized ==
    \A i \in 1..Len(results) :
       /\ Len(results[i].previous_value) = size(value_type)
       /\ IsSome(results[i].current_value)
       /\ Len(Unwrap(results[i].current_value)) = size(value_type)

\* two-byte results that went through a first_scan and a next_scan
C4_Witness ==
    /\ call.op = "next_scan"
    /\ value_type = VT("I16")
    /\ scan_count = 2
    /\ results # << >>

(* C5: scan_count is 0 after construction and after a reset, 1 after a     *)
(* first_scan, and one more after every next_scan, the next_scan of an     *)
(* empty result list included.                                             *)
C5_ScanCount ==
    [][(ncalls' = ncalls + 1) =>
        CASE call'.op = "reset" -> scan_count' = 0
          [] call'.op = "first_scan" -> scan_count' = 1
          [] call'.op = "next_scan" -> scan_count' = scan_count + 1
          [] OTHER -> scan_count' = scan_count]_vars

\* the observable results() state: result list, value type, scan count
Observable == [results |-> results, value_type |-> value_type, scan_count |-> scan_count]

\* what a reset leaves of a scanner whose value type is vt
AfterReset(vt) == [results |-> << >>, value_type |-> vt, scan_count |-> 0]

(* C6 as the specification states it: a reset right after a reset leaves   *)
(* what the first left, and a reset right after a first_scan leaves what a *)
(* reset alone would have left of the scanner the first_scan started from  *)
(* (call.vt is the value type that scanner had).                           *)
C6_ResetAbsorbsFirstScan ==
    [][Returns("reset") =>
        /\ Observable' = AfterReset(value_type)
        /\ (call.op = "reset" => Observable' = Observable)
        /\ (call.op = "first_scan" => Observable' = AfterReset(call.vt))]_vars

(* C6, amended: a reset right after a reset leaves what the first left; a  *)
(* reset right after a first_scan leaves the result list and the scan      *)
(* count a reset alone would have left, and the value type of the          *)
(* first_scan's options.                                                   *)
C6_ResetKeepsValueType ==
    [][Returns("reset") =>
        /\ Observable' = AfterReset(value_type)
        /\ (call.op = "reset" => Observable' = Observable)
        /\ (call.op = "first_scan" =>
               /\ Observable'.results = AfterReset(call.vt).results
               /\ Observable'.scan_count = AfterReset(call.vt).scan_count
               /\ Observable'.value_type = call.options.value_type)]_vars

\* a reset after a first_scan: nothing left of the scan but its value type
C6_Witness ==
    /\ call.op = "reset"
    /\ ncalls = 2
    /\ results = << >>
    /\ scan_count = 0
    /\ value_type = VT("I16")

\* the reads of read_region over the region: one for a small region, else one per chunk
RegionReads(region) ==
    IF region.size <= CHUNK_SIZE THEN {<<region.base_address, region.size>>}
    ELSE {<<region.base_address + k * CHUNK_SIZE,
            Min(region.size - k * CHUNK_SIZE, CHUNK_SIZE)>> :
              k \in 0..((region.size - 1) \div CHUNK_SIZE)}

(* C7: a first_scan (alignment and value size at least 1) returns success *)
(* whatever reads fail, and a region all of whose reads fail, whether or   *)
(* not it is larger than a chunk, adds no result.                          *)
C7_UnreadableRegionAddsNothing ==
    [][(/\ Returns("first_scan")
        /\ call'.options.alignment >= 1
        /\ size(call'.options.value_type) >= 1) =>
        /\ call'.ret = "Ok"
        /\ \A k \in 1..Len(ScannedRegions(call'.options)) :
              LET region == ScannedRegions(call'.options)[k]
              IN  (\A rd \in RegionReads(region) : ~read_memory(rd[1], rd[2]).ok) =>
                     \A i \in 1..Len(results') :
                        \/ results'[i].address < region.base_address
                        \/ results'[i].address >= region.base_address + region.size]_vars

\* a predicate of either kind, on the fresh number, the stored number and the reference
Satisfies(scan_type, fresh, stored, value) ==
    CASE scan_type \in HistoryTypes ->
            HistoryHolds(scan_type.tag, fresh.val, stored.val)
      [] scan_type.tag = "Unknown" -> TRUE
      [] OTHER -> compare(fresh, value, scan_type)

(* C8: a next_scan returns success whatever reads fail; a candidate whose  *)
(* read fails is dropped, and every other candidate is kept or dropped by  *)
(* its own bytes and the predicate alone.                                  *)
C8_NextScanAbsorbsReadFailures ==
    [][Returns("next_scan") =>
        /\ call'.ret = "Ok"
        /\ \A j \in 1..Len(results) :
              LET r == results[j]
                  fresh == read_memory(r.address, size(value_type))
              IN  IF ~fresh.ok THEN ~Kept(r)
                  ELSE Kept(r) <=>
                          Satisfies(call'.scan_type,
                                    from_bytes(fresh.v, value_type).value,
                                    from_bytes(Unwrap(r.current_value), value_type).value,
                                    call'.value)]_vars

(* The page at address 0 went away (the only thing that happened in the    *)
(* target) and a next_scan kept the four other bytes of an Unknown scan.   *)
C8_Witness ==
    /\ call.op = "next_scan"
    /\ call.ret = "Ok"
    /\ nenv = 1
    /\ unreadable = {0}
    /\ Addresses(results) = <<1, 2, 3, 4>>

(* C9: with the handle invalid, first_scan, next_scan, read_value and      *)
(* write_value each return an error.                                       *)
C9_InvalidHandleIsAnError ==
    [][(ncalls' = ncalls + 1 /\ ~handleValid
          /\ call'.op \in {"first_scan", "next_scan", "read_value", "write_value"}) =>
        call'.ret = "Err"]_vars

(* C10: on every engine variant, a class, method, field, instance, invoke  *)
(* or field access operation called while is_initialized() is false        *)
(* returns the not-initialized error.                                      *)
C10_NotInitialized ==
    (ecall.op \in FacadeOps /\ ~ecall.initialized) => ecall.ret = "NotInitialized"

----------------------------------------------------------------------------
(* Properties of the Unreal backend *)

AnchorOrder == <<"GObjects", "GNames", "ProcessEvent">>

\* some pattern of the k-th anchor gives a usable match on the target
Findable(k) ==
    LET outcomes == CASE k = 1 -> target.gobjects
                      [] k = 2 -> target.gnames
                      [] k = 3 -> target.process_event
    IN  \E i \in 1..Len(outcomes) : outcomes[i] = "Valid"

(* C11: the Unreal backend is initialized only once an initialize call has *)
(* located GObjects, GNames and ProcessEvent, searched in that order; an   *)
(* initialize call whose search for an anchor fails under every pattern    *)
(* returns initialization-failed, searches no later anchor and leaves      *)
(* is_initialized() false.                                                 *)
C11_AnchorsInOrder ==
    /\ engines["Unreal"] =>
          /\ \A k \in 1..3 : Findable(k)
          /\ unreal.gobjects_ptr # 0 /\ unreal.gnames_ptr # 0 /\ unreal.process_event # 0
    /\ (ecall.engine = "Unreal" /\ ecall.op = "initialize" /\ ~ecall.initialized) =>
          /\ ecall.searched = SubSeq(AnchorOrder, 1, Len(ecall.searched))
          /\ ecall.ret = "Ok" => ecall.searched = AnchorOrder
          /\ \A k \in 1..Len(ecall.searched) :
                ~Findable(k) =>
                   /\ ecall.ret = "InitializationFailed"
                   /\ Len(ecall.searched) = k
                   /\ ~engines["Unreal"]

(* GObjects was found by its last pattern, after two failed scans; GNames  *)
(* was found by none, and ProcessEvent was not searched.                   *)
C11_Witness ==
    /\ ecall.engine = "Unreal" /\ ecall.op = "initialize"
    /\ ecall.ret = "InitializationFailed"
    /\ ecall.searched = <<"GObjects", "GNames">>
    /\ unreal.gobjects_ptr = GObjectsPatterns
    /\ ~Findable(2) /\ Findable(3)
    /\ ~engines["Unreal"]

(* C12: on every return path of invoke the remote allocations the call    *)
(* made are freed: as many are outstanding after the call as before it.    *)
C12_InvokeFreesAllocations ==
    [][(necalls' = necalls + 1 /\ ecall'.op = "invoke") =>
        remote_allocs' = remote_allocs]_vars

----------------------------------------------------------------------------
(* Properties of the pattern scanner *)

\* a step in which the named free function returns
FReturns(fn) == fcall' # fcall /\ fcall'.fn = fn

(* The addresses the pattern occurs at: inside a committed readable region *)
(* based in the module and read whole, the pattern's bytes lying within    *)
(* the region and equal to the target's under the mask.                    *)
Occurrences(pattern, module_base, module_size) ==
    LET regions == query_memory_regions.v
        L == Len(pattern.bytes)
    IN  {A \in 0..(AddressSpace - 1) :
            \E k \in 1..Len(regions) :
               LET region == regions[k]
               IN  /\ region.is_readable
                   /\ module_base <= region.base_address
                   /\ region.base_address < module_base + module_size
                   /\ read_process_memory(region.base_address, region.size).ok
                   /\ region.base_address <= A
                   /\ A < region.base_address + region.size
                   /\ A + L <= region.base_address + region.size
                   /\ \A i \in 1..L : pattern.mask[i] => mem[A + i - 1] = pattern.bytes[i]}

(* C13: scan_pattern returns, in ascending order, every address at which   *)
(* the pattern occurs, the one whose match takes the last bytes of a       *)
(* region included.                                                        *)
C13_PatternScanComplete ==
    [][FReturns("scan_pattern") =>
        LET out == fcall'.out
        IN  /\ \A i \in 1..(Len(out) - 1) : out[i].address < out[i + 1].address
            /\ \A A \in Occurrences(fcall'.args[1], fcall'.args[2], fcall'.args[3]) :
                  \E i \in 1..Len(out) : out[i].address = A]_vars

(* C14: every address scan_pattern returns is one at which the pattern     *)
(* occurs: the bytes there equal the pattern at every position that is no  *)
(* wildcard, within a committed readable region based in the module.       *)
C14_PatternScanSound ==
    [][FReturns("scan_pattern") =>
        \A i \in 1..Len(fcall'.out) :
           fcall'.out[i].address
              \in Occurrences(fcall'.args[1], fcall'.args[2], fcall'.args[3])]_vars

\* a two-part pattern with a wildcard found in the executable region of the module
C14_Witness ==
    /\ fcall.fn = "scan_pattern"
    /\ fcall.args = <<PatternOf(<<<<1, TRUE>>, Wild>>), 2, 3>>
    /\ Len(fcall.out) >= 1
    /\ fcall.out[1].address = 2

----------------------------------------------------------------------------
(* Properties of the vectorized search *)

\* the offsets the contract of scan_i32 names, in ascending order
RECURSIVE AlignedMatches(_, _, _, _)
AlignedMatches(data, target_value, align, p) ==
    IF p + 4 > Len(data) THEN << >>
    ELSE (IF p % align = 0 /\ I32At(data, p) = target_value THEN <<p>> ELSE << >>)
         \o AlignedMatches(data, target_value, align, p + 1)

(* C15: for every buffer, target and alignment >= 1, scan_i32 returns the  *)
(* offsets p with p mod alignment = 0, p + 4 <= len and the little-endian  *)
(* i32 at p equal to the target, ascending: the AVX2 kernel returns what   *)
(* scalar_scan_i32 returns.                                                *)
C15_ScanI32Contract ==
    fcall.fn = "scan_i32" =>
        /\ fcall.out = AlignedMatches(fcall.args[1], fcall.args[2], fcall.args[3], 0)
        /\ fcall.out = scalar_scan_i32(fcall.args[1], fcall.args[2], fcall.args[3])

----------------------------------------------------------------------------
(* Properties of the enumeration of classes *)

\* following the class pointer from node reaches, within hops reads, a node
\* whose class pointer is itself
RECURSIVE Converges(_, _, _)
Converges(g, node, hops) ==
    /\ hops >= 1
    /\ UObjectRead(g, node).ok
    /\ \/ UObjectRead(g, node).v = node
       \/ Converges(g, UObjectRead(g, node).v, hops - 1)

\* UClass, or a class derived from it: the self-referential node or a struct
\* whose super chain reaches it
RECURSIVE IsMetaClass(_, _, _)
IsMetaClass(g, c, depth) ==
    /\ c \in 1..MaxObjects
    /\ \/ g.class[c] = c
       \/ depth >= 1 /\ IsMetaClass(g, g.super_struct[c], depth - 1)

\* a class: an instance of UClass or of a class derived from it
IsClassObject(g, o) == o \in 1..MaxObjects /\ IsMetaClass(g, g.class[o], MaxObjects)

\* an ordinary instance: not a class, its class pointer a class object
OrdinaryInstance(g, o) == ~IsClassObject(g, o) /\ IsClassObject(g, g.class[o])

\* the objects enumerate_classes reported
Reported(out) == {out.v[i].handle : i \in 1..Len(out.v)}

(* C16: enumerate_classes reports an object exactly when its class pointer *)
(* leads within 3 hops to a node whose class pointer is itself; UClass     *)
(* objects (1 hop) and BlueprintGeneratedClass objects (2 hops) are        *)
(* reported, and ordinary instances, whose class pointer is a class        *)
(* object, are not.                                                        *)
C16_ClassTest ==
    (fcall.fn = "enumerate_classes" /\ fcall.out.ok) =>
        LET g == fcall.args[1]
        IN  \A o \in 1..MaxObjects :
               /\ (UObjectRead(g, o).ok /\ get_class_info_impl(g, o).ok) =>
                     (o \in Reported(fcall.out) <=> Converges(g, g.class[o], 3))
               /\ OrdinaryInstance(g, o) => o \notin Reported(fcall.out)

----------------------------------------------------------------------------
(* Properties of the scan options *)

(* C17: the alignment a first_scan uses is never below the natural         *)
(* alignment of options.value_type and never zero, so that first_scan      *)
(* never strides by 0 and never divides by 0.                              *)
C17_AlignmentAtLeastNatural ==
    call.op = "first_scan" =>
        /\ call.options.alignment >= alignment(call.options.value_type)
        /\ call.options.alignment # 0
        /\ call.ret # "Panic"

----------------------------------------------------------------------------
(* Properties of the unknown-initial scan *)

\* the results are one per offset of ps, in order, each holding the region's
\* bytes at its offset as previous and as current value
HoldsRegionBytes(out, data, base, vt, ps) ==
    /\ ~out.panic
    /\ Len(out.results) = Len(ps)
    /\ \A i \in 1..Len(ps) :
          out.results[i] =
             NewScanResult(base + ps[i], SubSeq(data, ps[i] + 1, ps[i] + size(vt)))

\* the offsets 0, 4, 8, ... below limit
AlignedOffsets(limit) == [i \in 1..((limit + 3) \div 4) |-> 4 * (i - 1)]

(* C18, as stated: with alignment 4 the unknown-initial scan of a region   *)
(* of N bytes returns ceil(N/4) results for every N, one per aligned       *)
(* offset, ascending, each holding the region's bytes at that offset.      *)
C18_CeilingResults ==
    fcall.fn = "scan_region_first" =>
        /\ ~fcall.out.panic
        /\ Len(fcall.out.results) = (Len(fcall.args[1]) + 3) \div 4
        /\ \A i \in 1..Len(fcall.out.results) :
              fcall.out.results[i].address = fcall.args[2] + 4 * (i - 1)

(* C18, amended: the scan returns one result per aligned offset p at which *)
(* a whole value fits, p + size(T) <= N, ascending, each holding the       *)
(* region's bytes at p as previous and current value; that is ceil(N/4)    *)
(* results for the 1-byte types only.                                      *)
C18_OneResultPerFittingOffset ==
    fcall.fn = "scan_region_first" =>
        LET data == fcall.args[1]
            vt == fcall.args[3]
        IN  /\ HoldsRegionBytes(fcall.out, data, fcall.args[2], vt,
                                AlignedOffsets(Len(data) + 1 - size(vt)))
            /\ size(vt) = 1 => Len(fcall.out.results) = (Len(data) + 3) \div 4

\* a region of 6 bytes scanned for i32: one result, not two
C18_Witness ==
    /\ fcall.fn = "scan_region_first"
    /\ Len(fcall.args[1]) = 6
    /\ fcall.args[3] = VT("I32")
    /\ Len(fcall.out.results) = 1

----------------------------------------------------------------------------
(* Properties of the conversions *)

(* C19: for every value type, i8, u8 and byte arrays included, and every   *)
(* slice shorter than the type's size, the empty slice included,           *)
(* from_bytes returns None and does not panic.                             *)
C19_ShortSliceIsNone ==
    (fcall.fn = "from_bytes" /\ Len(fcall.args[2]) < size(fcall.args[3])) =>
        fcall.out.kind = "None"

----------------------------------------------------------------------------
(* Properties of the name pool *)

\* the entries of the pool whose id is id
EntriesAt(names, block, id) ==
    {k \in 1..Len(names) : id = block * BLOCK_OFFSETS + EntryOffset(names, k)}

(* C21: an id composed as (block << 16) | offset, the block's table entry  *)
(* being non-null, resolves to the entry whose header is at                *)
(* blocks[block] + offset * 2: get_fname returns the string written there. *)
C21_DecodeInvertsEncode ==
    fcall.fn = "get_fname" =>
        \A k \in EntriesAt(fcall.args[1], fcall.args[2], fcall.args[4]) :
           /\ fcall.out.ok
           /\ fcall.out.v = fcall.args[1][k].chars

\* the third entry of a pool, a wide name behind two narrow ones, has been decoded
C21_Witness ==
    /\ fcall.fn = "get_fname"
    /\ Len(fcall.args[1]) = 3
    /\ fcall.args[1][3] = PoolName(<<12354, 233>>, TRUE)
    /\ fcall.args[1][1] = PoolName(<<65, 116, 107>>, FALSE)
    /\ fcall.args[2] = 1
    /\ 3 \in EntriesAt(fcall.args[1], fcall.args[2], fcall.args[4])
    /\ fcall.out = Ok(<<12354, 233>>)

(* C22: get_fname fails for every id that designates no entry of the pool: *)
(* an id whose block-table entry is null, and an id past (or between) the  *)
(* entries written in its block.                                           *)
C22_NoEntryFails ==
    (fcall.fn = "get_fname"
       /\ EntriesAt(fcall.args[1], fcall.args[2], fcall.args[4]) = {}) => ~fcall.out.ok

----------------------------------------------------------------------------
(* Properties of the object array *)

\* the items of the array that hold an object to report, by ascending index
RECURSIVE Ascending(_)
Ascending(S) ==
    IF S = {} THEN << >>
    ELSE LET least == CHOOSE x \in S : \A y \in S : x <= y
         IN  <<least>> \o Ascending(S \ {least})

ReportedItems(a) ==
    Ascending({i \in DOMAIN a.items :
                 /\ i < a.num_elements
                 /\ a.chunks[(i \div NUM_ELEMENTS_PER_CHUNK) + 1] = "ok"
                 /\ a.items[i] \in {"valid", "other_flag"}})

(* C23: get_all_objects returns, by ascending index, exactly the object    *)
(* pointers of the items below num-elements whose chunk pointer is         *)
(* readable and non-null, whose item is readable, whose object is non-zero *)
(* and whose flags have bit 0 clear; an unreadable chunk or item skips     *)
(* that slot only.                                                         *)
C23_AllObjects ==
    fcall.fn = "get_all_objects" =>
        /\ fcall.out.ok
        /\ fcall.out.v = [k \in 1..Len(ReportedItems(fcall.args[1])) |->
                             ObjectOf(ReportedItems(fcall.args[1])[k])]

\* the first chunk cannot be read and the first item of the second chunk is reported
C23_Witness ==
    /\ fcall.fn = "get_all_objects"
    /\ fcall.args[1].num_elements = NUM_ELEMENTS_PER_CHUNK + 1
    /\ fcall.args[1].chunks = <<"unreadable", "ok">>
    /\ fcall.out = Ok(<<ObjectOf(NUM_ELEMENTS_PER_CHUNK)>>)

----------------------------------------------------------------------------
(* Properties of write_field *)

\* the size in bytes of a primitive kind
PrimitiveSize(kind) ==
    CASE kind \in {"Bool", "I8", "U8"} -> 1
      [] kind \in {"I16", "U16"} -> 2
      [] kind \in {"I32", "U32", "F32"} -> 4
      [] kind \in {"I64", "U64", "F64"} -> 8

\* the little-endian encoding of a primitive value
LittleEndian(value) ==
    CASE value.kind = "Bool" -> IF value.payload THEN <<1>> ELSE <<0>>
      [] value.kind = "F64" -> ToLe(value.payload[1], 4) \o ToLe(value.payload[2], 4)
      [] OTHER -> SubSeq(I64ToLe(value.payload), 1, PrimitiveSize(value.kind))

(* C24: write_field writes the little-endian encoding of the value at      *)
(* instance + offset for a value of every primitive kind, the raw bytes    *)
(* for a struct value, and returns type-mismatch without writing for null, *)
(* string, object and array values.                                        *)
C24_WriteFieldEncodes ==
    (fcall.fn = "write_field" /\ fcall.args[4]) =>
        LET value == fcall.args[3]
            addr == fcall.args[1] + fcall.args[2]
        IN  CASE value.kind \in {"Null", "String", "Object", "Array"} ->
                    fcall.out = [ret |-> "TypeMismatch", written |-> None]
              [] value.kind = "Struct" ->
                    fcall.out = [ret |-> "Ok", written |-> Some(<<addr, value.payload>>)]
              [] OTHER ->
                    fcall.out = [ret |-> "Ok", written |-> Some(<<addr, LittleEndian(value)>>)]

----------------------------------------------------------------------------
(* Properties of the list walks and the field accesses *)

(* C26: every walk of a method list or a property list, in                 *)
(* enumerate_methods, enumerate_fields, find_method and find_field, visits *)
(* at most 1000 nodes, whatever the remote object graph.                   *)
C26_WalkVisitsAtMostCap ==
    fcall.fn \in Walkers => fcall.out.visited <= WALK_CAP

(* C30: for a handle f that find_field returned, read_field(instance, f)   *)
(* and write_field(instance, f, v) access instance + the offset that       *)
(* get_field_info(f) reports.                                              *)
C30_FieldAccessAtOffset ==
    LET info == get_field_info_impl(fcall.args[1], fcall.args[3])
        addr == fcall.args[2] + info.v.offset
    IN  /\ fcall.fn = "read_field" => (info.ok /\ fcall.out.addr = addr)
        /\ (fcall.fn = "write_field" /\ fcall.out.ret = "Ok") =>
                (info.ok /\ fcall.out.written = Some(<<addr, ToLe(7, 4)>>))

----------------------------------------------------------------------------
(* Properties of find_class *)

\* the objects named name that pass the class test of enumerate_classes
PassingNamed(g, name) ==
    {o \in 1..MaxObjects :
        /\ get_object_name_impl(g, o) = Ok(name)
        /\ g.class[o] # 0
        /\ ClassWalk(g, g.class[o], <<g.class[o]>>, 0)}

\* the classes enumerate_classes lists under the name
ListedUnder(g, name) ==
    {o \in Reported(enumerate_classes_impl(g)) : get_object_name_impl(g, o) = Ok(name)}

(* C29: find_class(name) returns the first object in enumeration order     *)
(* whose name is name and which passes the class test of                   *)
(* enumerate_classes, so that a class listed by enumerate_classes under    *)
(* the name is found, and it returns class-not-found exactly when no       *)
(* object of that name passes the test.                                    *)
C29_FindClassAgreesWithEnumerate ==
    (fcall.fn = "find_class" /\ get_all_objects_impl(fcall.args[1]).ok) =>
        LET g == fcall.args[1]
            name == fcall.args[2]
            passing == PassingNamed(g, name)
        IN  /\ ListedUnder(g, name) # {} => fcall.out.ret = "Ok"
            /\ fcall.out.ret = "ClassNotFound" <=> passing = {}
            /\ passing # {} =>
                 fcall.out = [ret |-> "Ok",
                              value |-> CHOOSE o \in passing : \A p \in passing : o <= p]

----------------------------------------------------------------------------
(* Properties of remote threads and of the process handle *)

(* C27: every remote thread an invoke created has been waited for and its  *)
(* handle closed when the invoke returns: no thread handle remains open    *)
(* after any invoke.                                                       *)
C27_ThreadHandlesClosed ==
    /\ threads.waited = threads.created
    /\ threads.closed = threads.created

(* C25: the OS handle is closed at most once, exactly once when its        *)
(* wrapper is gone, and neither the scanner nor an engine issues a read,   *)
(* write, region query or remote allocation on it after it was closed.     *)
C25_HandleLifetime ==
    /\ life.closes <= 1
    /\ life.process = "dropped" => life.closes = 1
    /\ life.stale = 0

----------------------------------------------------------------------------
(* Properties of the signature operands *)

(* C28: for every GNames and GObjects signature the operand offset that    *)
(* discovery selects is that of the four wildcard bytes of the signature's *)
(* RIP-relative instruction, the instruction end is 4 more, and the        *)
(* pointer location is match address + instruction end + operand.          *)
C28_OperandOfRipInstruction ==
    fcall.fn = "resolve" =>
        LET sig == SignatureOf(fcall.args[1])
            inst == CHOOSE i \in RipInstructions(sig) : TRUE
        IN  /\ Cardinality(RipInstructions(sig)) = 1
            /\ fcall.out.offset_pos = inst - 1 + 3
            /\ fcall.out.instruction_end = fcall.out.offset_pos + 4
            /\ fcall.out.ptr = fcall.args[2] + fcall.out.instruction_end + fcall.args[3]

====
